---- MODULE Spec2Model ----
(***************************************************************************)
(* State-machine model of LibSQLHttpServer (libSQL HTTP protocol server on *)
(* a Durable Object SQLite backend): the stream registry with rotating     *)
(* batons and idle timers, and the v2/v3 pipeline engine.                  *)
(*                                                                         *)
(* The server is single-threaded and cooperative.  A handler runs without  *)
(* interruption from one `await` to the next, so one action of the model   *)
(* is one such run:                                                        *)
(*   Receive  handleRequest up to `await request.json()`                   *)
(*   Body     handlePipeline from the parsed body up to the first          *)
(*            `await this.handleStreamRequest(...)` (or to the response)   *)
(*   Resume   from one `await this.handleStreamRequest(...)` to the next   *)
(*            (or to the response)                                         *)
(*   TimerFire  the callback of a setTimeout armed by resetStreamTimeout   *)
(*   Tick     passage of time                                              *)
(* The body of an async function runs synchronously when it is called, so  *)
(* the effects of requests[i] happen in the run that calls it and its      *)
(* outcome is pushed to `results` in the run that follows the await.       *)
(***************************************************************************)
EXTENDS Integers, Sequences, FiniteSets, TLC

(***************************************************************************)
(* Bounds of the model.                                                    *)
(***************************************************************************)
NumSlots  == 2        \* HTTP requests that can be in flight at once
MaxBatons == 3        \* calls of generateBaton in one behaviour
MaxReqs   == 2        \* length of a pipeline's `requests` array
TickMs    == 300000   \* granularity of the passage of time, in ms
MaxBytes  == 3        \* length of a byte blob
MaxSteps  == 2        \* length of a batch's `steps` array
MaxCalls  == 4        \* backend calls made for V1 requests in one behaviour
MaxArgs   == 2        \* arguments of a statement
MaxRows   == 2        \* rows of table t before a statement is executed on its own

Slots == 1..NumSlots

(***************************************************************************)
(* Program constants.                                                      *)
(***************************************************************************)
STREAM_TIMEOUT_MS == 5 * 60 * 1000

JsNull      == "<null>"   \* the JSON value null in a response field
NullBaton   == 0          \* body.baton null or absent
ForgedBaton == -1         \* a string that generateBaton never returned

(***************************************************************************)
(* String helpers: String.prototype.trim / toUpperCase / startsWith.       *)
(***************************************************************************)
LowerChars == "abcdefghijklmnopqrstuvwxyz"
UpperChars == "ABCDEFGHIJKLMNOPQRSTUVWXYZ"

UpperOf ==
  [c \in {SubSeq(LowerChars, i, i) : i \in 1..Len(LowerChars)} |->
     LET i == CHOOSE j \in 1..Len(LowerChars) : SubSeq(LowerChars, j, j) = c
     IN  SubSeq(UpperChars, i, i)]

upperChar(c) == IF c \in DOMAIN UpperOf THEN UpperOf[c] ELSE c

RECURSIVE toUpperCase(_)
toUpperCase(s) ==
  IF Len(s) = 0 THEN ""
  ELSE upperChar(SubSeq(s, 1, 1)) \o toUpperCase(SubSeq(s, 2, Len(s)))

RECURSIVE trimStart(_)
trimStart(s) ==
  IF Len(s) > 0 /\ SubSeq(s, 1, 1) = " " THEN trimStart(SubSeq(s, 2, Len(s))) ELSE s

RECURSIVE trimEnd(_)
trimEnd(s) ==
  IF Len(s) > 0 /\ SubSeq(s, Len(s), Len(s)) = " "
  THEN trimEnd(SubSeq(s, 1, Len(s) - 1)) ELSE s

trim(s) == trimEnd(trimStart(s))

startsWith(s, p) == Len(s) >= Len(p) /\ SubSeq(s, 1, Len(p)) = p

(***************************************************************************)
(* Finite maps: Map.set / Map.delete / Map.has.                            *)
(***************************************************************************)
EmptyMap == <<>>

mapSet(m, k, v) == (k :> v) @@ m

mapDelete(m, k) == [x \in (DOMAIN m) \ {k} |-> m[x]]

(***************************************************************************)
(* SQL text used by the clients of the model, and the backend executor     *)
(* `this.sql` over one table t whose rows are numbered 1..db.              *)
(***************************************************************************)
SelectRows == "select * from t"
InsertRow  == "INSERT INTO t DEFAULT VALUES"
SelectBad  == "SELECT notacolumn"
BeginTx    == "BEGIN"
CommitTx   == "COMMIT"
RollbackTx == "ROLLBACK"
EmptySql   == ""
LastRowid  == "SELECT last_insert_rowid() as id"

NoSuchColumn == "no such column: notacolumn"
NoTxAllowed  == "cannot start a transaction within a Durable Object"

\* Other spellings of the two, and statements that the backend runs without
\* returning rows or changing the number of rows of t.
SelectSql  == {SelectRows, "  SELECT * FROM t", "WITH r AS (SELECT * FROM t) SELECT * FROM r"}
InsertSql  == {InsertRow, "  insert into t default values", "REPLACE INTO t DEFAULT VALUES"}
RowlessSql ==
  {"UPDATE t SET id = id", " update t set id = id", "DELETE FROM t WHERE 0",
   "delete from t where 0", "CREATE TABLE IF NOT EXISTS u (x)",
   " create index if not exists i on t (id)", "DROP TABLE IF EXISTS u",
   "drop index if exists i", "ALTER TABLE u ADD COLUMN y", "alter table u add column z",
   "PRAGMA optimize"}

\* this.sql.exec(sql).toArray(): the rows returned, the table afterwards, or the
\* exception thrown.
sqlExec(sql, rows) ==
  CASE sql \in SelectSql -> [threw |-> FALSE, message |-> "", db |-> rows,
                            rows |-> [k \in 1..rows |-> [id |-> [t |-> "number", n |-> k]]]]
    [] sql \in InsertSql -> [threw |-> FALSE, message |-> "", db |-> rows + 1,
                            rows |-> <<>>]
    [] sql \in RowlessSql ->
                           [threw |-> FALSE, message |-> "", db |-> rows, rows |-> <<>>]
    [] sql = LastRowid  -> [threw |-> FALSE, message |-> "", db |-> rows,
                            rows |-> <<[id |-> [t |-> "number", n |-> rows]]>>]
    [] sql = SelectBad  -> [threw |-> TRUE, message |-> NoSuchColumn, db |-> rows,
                            rows |-> <<>>]
    [] OTHER            -> [threw |-> TRUE, message |-> NoTxAllowed, db |-> rows,
                            rows |-> <<>>]

(***************************************************************************)
(* Value codec.  A JavaScript value is tagged with its type:               *)
(*   [t |-> "null"]                   null                                 *)
(*   [t |-> "string", s |-> x]        a string                             *)
(*   [t |-> "number", n |-> k]        the whole number k                   *)
(*   [t |-> "number", n |-> k, half |-> TRUE]   the number k + 0.5         *)
(*   [t |-> "bytes", b |-> <<x, ...>>]          a Uint8Array               *)
(*   [t |-> "object", base64 |-> s]   the object {base64: s}               *)
(* and a Hrana value is the record [type |-> ..., value |-> ...] whose     *)
(* value is a tagged JavaScript value.  JSON.stringify and JSON.parse keep *)
(* null, strings, these numbers and plain objects as they are.             *)
(***************************************************************************)
Base64Chars == "ABCDEFGHIJKLMNOPQRSTUVWXYZabcdefghijklmnopqrstuvwxyz0123456789+/"

base64Char(i) == SubSeq(Base64Chars, i + 1, i + 1)

\* btoa(String.fromCharCode(...bytes))
RECURSIVE btoa(_)
btoa(bytes) ==
  IF Len(bytes) = 0 THEN ""
  ELSE IF Len(bytes) = 1
  THEN LET n == bytes[1] * 65536
       IN base64Char(n \div 262144) \o base64Char((n \div 4096) % 64) \o "=="
  ELSE IF Len(bytes) = 2
  THEN LET n == bytes[1] * 65536 + bytes[2] * 256
       IN base64Char(n \div 262144) \o base64Char((n \div 4096) % 64)
            \o base64Char((n \div 64) % 64) \o "="
  ELSE LET n == bytes[1] * 65536 + bytes[2] * 256 + bytes[3]
       IN base64Char(n \div 262144) \o base64Char((n \div 4096) % 64)
            \o base64Char((n \div 64) % 64) \o base64Char(n % 64)
            \o btoa(SubSeq(bytes, 4, Len(bytes)))

isInteger(value) == value.t = "number" /\ "half" \notin DOMAIN value

\* Mutant: whole numbers are sent as JSON numbers.
convertToHranaValue_number(value) ==
  CASE value.t = "null"   -> [type |-> "null"]
    [] value.t = "string" -> [type |-> "text", value |-> value]
    [] value.t = "number" ->
         IF isInteger(value) THEN [type |-> "integer", value |-> value]
         ELSE [type |-> "float", value |-> value]
    [] value.t = "bytes"  ->
         [type |-> "blob", value |-> [t |-> "string", s |-> btoa(value.b)]]

\* convertToHranaValue: the value of a row in a v2/v3 response.  (Its fallback
\* String(value) for other JavaScript values is not modelled.)
convertToHranaValue(value) ==
  CASE value.t = "null"   -> [type |-> "null"]
    [] value.t = "string" -> [type |-> "text", value |-> value]
    [] value.t = "number" ->
         IF isInteger(value)
         THEN [type |-> "integer", value |-> [t |-> "string", s |-> ToString(value.n)]]
         ELSE [type |-> "float", value |-> value]
    [] value.t = "bytes"  ->
         [type |-> "blob", value |-> [t |-> "string", s |-> btoa(value.b)]]

\* convertToSqlValue: the value of a row in a V1 response.
convertToSqlValue(value) ==
  CASE value.t = "null"   -> value
    [] value.t = "string" -> value
    [] value.t = "number" -> value
    [] value.t = "bytes"  -> [t |-> "object", base64 |-> btoa(value.b)]

\* parseHranaValue: an argument of a v2/v3 statement, raw or in Hrana format.
parseHranaValue(value) ==
  IF "t" \in DOMAIN value
  THEN value                          \* null, a scalar, an object without `type`
  ELSE IF value.type = "null" THEN [t |-> "null"]
       ELSE IF "value" \in DOMAIN value THEN value.value ELSE [t |-> "null"]

\* parseArgs: args.map(parseHranaValue)
parseArgs(args) == [i \in 1..Len(args) |-> parseHranaValue(args[i])]

\* normalizeParams on an array of V1 params: the array itself.
normalizeParams(params) == params

(***************************************************************************)
(* Parameter binding.  A JavaScript object is the sequence of its          *)
(* [name, value] entries in iteration order (the names used are not        *)
(* integer-like, so that is insertion order); `undefined` is Undefined and *)
(* a value that may be undefined is wrapped as [some |-> value].           *)
(***************************************************************************)
Undefined == [undefined |-> TRUE]

\* result[name] = value
objectSet(obj, name, value) ==
  IF \E i \in 1..Len(obj) : obj[i].name = name
  THEN [i \in 1..Len(obj) |-> IF obj[i].name = name
                              THEN [name |-> name, value |-> value] ELSE obj[i]]
  ELSE Append(obj, [name |-> name, value |-> value])

\* Object.values(obj)
objectValues(obj) == [i \in 1..Len(obj) |-> obj[i].value]

\* parseArgs(stmt.args), of a statement that may have no args.
parsedArgs(stmt) == IF "args" \in DOMAIN stmt THEN parseArgs(stmt.args) ELSE <<>>

\* The forEach of parseNamedArgs over a list of {name, value} from entry i on.
RECURSIVE namedFromList(_, _, _)
namedFromList(list, i, result) ==
  IF i > Len(list) THEN result
  ELSE namedFromList(list, i + 1,
         objectSet(result, list[i].name, parseHranaValue(list[i].value)))

\* parseNamedArgs(stmt.named_args): named_args is absent, a list of {name, value}
\* (v3) or an object (v2), which is returned as it is.
parseNamedArgs(stmt) ==
  IF "named_args" \notin DOMAIN stmt THEN Undefined
  ELSE IF "list" \in DOMAIN stmt.named_args
  THEN [some |-> namedFromList(stmt.named_args.list, 1, <<>>)]
  ELSE [some |-> stmt.named_args.map]

\* sql.match(/\?/g) is not null
hasPlaceholder(sql) == \E i \in 1..Len(sql) : SubSeq(sql, i, i) = "?"

namedArgsToArray(sql, namedArgs) ==
  IF ~hasPlaceholder(sql) THEN <<>> ELSE objectValues(namedArgs)

\* executeStatement: const params = args || this.namedArgsToArray(sql, namedArgs || {}).
\* Every array is truthy, the empty one too.
statementParams(sql, args, namedArgs) ==
  IF args # Undefined THEN args.some
  ELSE namedArgsToArray(sql, IF namedArgs # Undefined THEN namedArgs.some ELSE <<>>)

\* handleExecute / handleBatch: the params that this.sql.exec gets for stmt.
executeParams(stmt) ==
  statementParams(stmt.sql, [some |-> parsedArgs(stmt)], parseNamedArgs(stmt))

(***************************************************************************)
(* Statement executor.                                                     *)
(***************************************************************************)
\* Mutant: only INSERT is a write.
isWriteQuery_insert(sql) == startsWith(toUpperCase(trim(sql)), "INSERT")

isWriteQuery(sql) ==
  LET upper == toUpperCase(trim(sql)) IN
  \/ startsWith(upper, "INSERT")
  \/ startsWith(upper, "UPDATE")
  \/ startsWith(upper, "DELETE")
  \/ startsWith(upper, "CREATE")
  \/ startsWith(upper, "DROP")
  \/ startsWith(upper, "ALTER")

\* Mutant: no statement is intercepted.
isTransactionControl_none(trimmedSql) == FALSE

isTransactionControl(trimmedSql) ==
  \/ trimmedSql = "BEGIN"
  \/ trimmedSql = "COMMIT"
  \/ trimmedSql = "ROLLBACK"
  \/ startsWith(trimmedSql, "BEGIN DEFERRED")
  \/ startsWith(trimmedSql, "BEGIN IMMEDIATE")
  \/ startsWith(trimmedSql, "BEGIN EXCLUSIVE")
  \/ trimmedSql = "SAVEPOINT"
  \/ startsWith(trimmedSql, "SAVEPOINT ")
  \/ startsWith(trimmedSql, "RELEASE ")

\* Mutant: the metadata is added whatever the protocol version.
v3Metadata_always(result, version, rowsRead, rowsWritten) ==
  result @@ [rows_read |-> rowsRead, rows_written |-> rowsWritten,
             query_duration_ms |-> 0]

\* The v3 metadata added to a StmtResult when this.protocolVersion === 3.
\* query_duration_ms is a measurement; the model records 0.
v3Metadata(result, version, rowsRead, rowsWritten) ==
  IF version = 3
  THEN result @@ [rows_read |-> rowsRead, rows_written |-> rowsWritten,
                  query_duration_ms |-> 0]
  ELSE result

\* An outcome of a handler: the table and the number of backend calls afterwards,
\* and either the value returned or the message of the Error thrown.
Returned(rows, calls, value) ==
  [threw |-> FALSE, db |-> rows, calls |-> calls, value |-> value]

Thrown(rows, calls, message) ==
  [threw |-> TRUE, db |-> rows, calls |-> calls, value |-> message]

executeStatement(sql, rows, calls, version) ==
  LET trimmedSql == toUpperCase(trim(sql)) IN
  IF isTransactionControl(trimmedSql)
  THEN Returned(rows, calls,
         v3Metadata([cols |-> <<>>, rows |-> <<>>, affected_row_count |-> 0,
                     last_insert_rowid |-> JsNull], version, 0, 0))
  ELSE
    LET res == sqlExec(sql, rows) IN
    IF res.threw THEN Thrown(res.db, calls + 1, res.message)
    ELSE
      LET cols      == IF Len(res.rows) > 0
                       THEN <<[name |-> "id", decltype |-> JsNull]>> ELSE <<>>
          rowArrays == [i \in 1..Len(res.rows) |->
                          [c \in 1..Len(cols) |-> convertToHranaValue(res.rows[i].id)]]
          isInsert  == startsWith(trimmedSql, "INSERT")
          idResult  == sqlExec(LastRowid, res.db).rows[1]
          lastInsertRowid ==
            IF isInsert
            THEN (IF idResult.id.n = 0 THEN "null" ELSE ToString(idResult.id.n))
            ELSE JsNull
          isWrite   == isWriteQuery(sql)
      IN Returned(res.db, IF isInsert THEN calls + 2 ELSE calls + 1,
           v3Metadata([cols |-> cols, rows |-> rowArrays,
                       affected_row_count |-> IF isWrite THEN 1 ELSE 0,
                       last_insert_rowid |-> lastInsertRowid],
                      version, Len(res.rows), IF isWrite THEN 1 ELSE 0))

\* executeQuery (V1) for a query given as a string: the statement goes to
\* this.sql.exec as it is.
executeQuery(query, rows, calls) ==
  LET res == sqlExec(query, rows) IN
  IF res.threw THEN Thrown(res.db, calls + 1, res.message)
  ELSE LET columns   == IF Len(res.rows) > 0 THEN <<"id">> ELSE <<>>
           rowArrays == [i \in 1..Len(res.rows) |->
                           [c \in 1..Len(columns) |-> convertToSqlValue(res.rows[i].id)]]
       IN Returned(res.db, calls + 1,
            [columns |-> columns, rows |-> rowArrays, rowsRead |-> Len(res.rows),
             rowsWritten |-> IF isWriteQuery(query) THEN 1 ELSE 0])

(***************************************************************************)
(* Stream state and the requests of a pipeline.                            *)
(***************************************************************************)
newStreamState == EmptyMap      \* new StreamState(): storedSql = new Map()

SqlIdNotFound(id) == "SQL ID " \o ToString(id) \o " not found"
NeitherSql        == "Neither sql nor sql_id provided"

\* Mutant: a statement that names no SQL, or SQL that is not stored, reads table t.
resolveSql_lenient(stmt, cache) ==
  IF "sql" \in DOMAIN stmt /\ stmt.sql # ""
  THEN [threw |-> FALSE, value |-> stmt.sql]
  ELSE IF "sql_id" \in DOMAIN stmt /\ stmt.sql_id \in DOMAIN cache
            /\ cache[stmt.sql_id] # ""
       THEN [threw |-> FALSE, value |-> cache[stmt.sql_id]]
       ELSE [threw |-> FALSE, value |-> SelectRows]

\* resolveSql: the SQL text, or the message of the Error thrown.
resolveSql(stmt, cache) ==
  IF "sql" \in DOMAIN stmt /\ stmt.sql # ""
  THEN [threw |-> FALSE, value |-> stmt.sql]
  ELSE IF "sql_id" \in DOMAIN stmt
       THEN IF stmt.sql_id \in DOMAIN cache /\ cache[stmt.sql_id] # ""
            THEN [threw |-> FALSE, value |-> cache[stmt.sql_id]]
            ELSE [threw |-> TRUE, value |-> SqlIdNotFound(stmt.sql_id)]
       ELSE [threw |-> TRUE, value |-> NeitherSql]

handleExecute(request, cache, rows, calls, version) ==
  LET sql == resolveSql(request.stmt, cache) IN
  IF sql.threw THEN Thrown(rows, calls, sql.value)
  ELSE LET out == executeStatement(sql.value, rows, calls, version) IN
       IF out.threw THEN out
       ELSE Returned(out.db, out.calls, [type |-> "execute", result |-> out.value])

\* null as an entry of step_results and step_errors.
NullEntry == [null |-> TRUE]

StepUndefined   == "Step statement is undefined"
SqlNotProvided  == "SQL not provided and sql_id not found"

\* Mutant: every condition holds.
evaluateCondition_true(cond, results, errors) == TRUE

\* evaluateCondition(cond, results, errors).  cond.step counts from 0; an index
\* past the end of errors reads undefined, which is not null.
RECURSIVE evaluateCondition(_, _, _)
evaluateCondition(cond, results, errors) ==
  IF cond.type = "not" /\ "cond" \in DOMAIN cond
  THEN ~evaluateCondition(cond.cond, results, errors)
  ELSE IF "step" \notin DOMAIN cond THEN TRUE
  ELSE LET isNull == cond.step + 1 \in DOMAIN errors /\ errors[cond.step + 1] = NullEntry
       IN CASE cond.type = "ok"    -> isNull
            [] cond.type = "error" -> ~isNull
            [] OTHER               -> TRUE

\* Mutant: the catch of a step records nothing.
stepExecuted_silent(out) ==
  IF out.threw
  THEN [result |-> NullEntry, error |-> NullEntry, db |-> out.db, calls |-> out.calls]
  ELSE [result |-> out.value, error |-> NullEntry, db |-> out.db, calls |-> out.calls]

\* What the loop of handleBatch pushes for a statement that was executed: its
\* result, or the message of what it threw.
stepExecuted(out) ==
  IF out.threw
  THEN [result |-> NullEntry,
        error |-> [message |-> IF out.value = "" THEN "Execution failed" ELSE out.value],
        db |-> out.db, calls |-> out.calls]
  ELSE [result |-> out.value, error |-> NullEntry, db |-> out.db, calls |-> out.calls]

\* ... for a step whose SQL was resolved, or was not.
stepResolved(sql, rows, calls, version) ==
  IF sql.threw
  THEN [result |-> NullEntry, error |-> [message |-> sql.value],
        db |-> rows, calls |-> calls]
  ELSE stepExecuted(executeStatement(sql.value, rows, calls, version))

\* The body of the loop of handleBatch for one step: what it pushes to stepResults
\* and stepErrors, with the table and the backend calls afterwards.
batchStep(step, stepResults, stepErrors, cache, rows, calls, version) ==
  IF "condition" \in DOMAIN step /\ ~evaluateCondition(step.condition, stepResults, stepErrors)
  THEN [result |-> NullEntry, error |-> NullEntry, db |-> rows, calls |-> calls]
  ELSE IF "stmt" \notin DOMAIN step
  THEN [result |-> NullEntry, error |-> [message |-> StepUndefined],
        db |-> rows, calls |-> calls]
  ELSE stepResolved(resolveSql(step.stmt, cache), rows, calls, version)

\* stepResults.push, stepErrors.push: the arrays, the table and the backend calls
\* after step s.
pushStep(acc, s) ==
  [results |-> Append(acc.results, s.result), errors |-> Append(acc.errors, s.error),
   db |-> s.db, calls |-> s.calls]

\* The loop of handleBatch from step i on.
RECURSIVE batchLoop(_, _, _, _, _)
batchLoop(steps, i, acc, cache, version) ==
  IF i > Len(steps)
  THEN Returned(acc.db, acc.calls,
         [type |-> "batch",
          result |-> [step_results |-> acc.results, step_errors |-> acc.errors]])
  ELSE batchLoop(steps, i + 1,
         pushStep(acc, batchStep(steps[i], acc.results, acc.errors, cache,
                                 acc.db, acc.calls, version)),
         cache, version)

\* handleBatch.  The steps of a batch run in the order of the array; the model
\* runs them in the run that calls handleBatch.
handleBatch(request, cache, rows, calls, version) ==
  batchLoop(request.batch.steps, 1,
            [results |-> <<>>, errors |-> <<>>, db |-> rows, calls |-> calls],
            cache, version)

\* The SQL of a sequence or describe request: stored under sql_id if the request
\* has one, else request.sql; "" stands for undefined too (`!sql` holds of both).
storedOrInline(request, cache) ==
  IF "sql_id" \in DOMAIN request
  THEN IF request.sql_id \in DOMAIN cache THEN cache[request.sql_id] ELSE ""
  ELSE IF "sql" \in DOMAIN request THEN request.sql ELSE ""

\* handleSequence: the SQL goes to this.sql.exec as it is.
handleSequence(request, cache, rows, calls) ==
  LET sql == storedOrInline(request, cache) IN
  IF sql = "" THEN Thrown(rows, calls, SqlNotProvided)
  ELSE LET res == sqlExec(sql, rows) IN
       IF res.threw THEN Thrown(res.db, calls + 1, res.message)
       ELSE Returned(res.db, calls + 1, [type |-> "sequence"])

isReadonlyQuery(sql) == ~isWriteQuery(sql)

\* handleDescribe: a description made from the text of the SQL.
handleDescribe(request, cache, rows, calls) ==
  LET sql == storedOrInline(request, cache) IN
  IF sql = "" THEN Thrown(rows, calls, SqlNotProvided)
  ELSE Returned(rows, calls,
         [type |-> "describe",
          result |-> [params |-> <<>>, cols |-> <<>>,
                      is_explain |-> startsWith(toUpperCase(trim(sql)), "EXPLAIN"),
                      is_readonly |-> isReadonlyQuery(sql)]])

\* Mutant: one storedSql map shared by all streams.
storeSql_shared(caches, stream, request) ==
  [s \in DOMAIN caches |-> mapSet(caches[s], request.sql_id, request.sql)]

\* stream.storedSql.set(request.sql_id, request.sql), on the storedSql maps of all
\* stream objects.
storeSql(caches, stream, request) ==
  [caches EXCEPT ![stream] = mapSet(@, request.sql_id, request.sql)]

\* stream.storedSql.delete(request.sql_id)
closeSql(caches, stream, request) ==
  [caches EXCEPT ![stream] = mapDelete(@, request.sql_id)]

\* handleStreamRequest(request, stream): the outcome, with the storedSql maps
\* afterwards.
handleStreamRequest(request, stream, caches, rows, calls, version) ==
  CASE request.type = "close" ->
         [caches |-> caches, out |-> Returned(rows, calls, [type |-> "close"])]
    [] request.type = "execute" ->
         [caches |-> caches,
          out |-> handleExecute(request, caches[stream], rows, calls, version)]
    [] request.type = "batch" ->
         [caches |-> caches,
          out |-> handleBatch(request, caches[stream], rows, calls, version)]
    [] request.type = "sequence" ->
         [caches |-> caches,
          out |-> handleSequence(request, caches[stream], rows, calls)]
    [] request.type = "describe" ->
         [caches |-> caches,
          out |-> handleDescribe(request, caches[stream], rows, calls)]
    [] request.type = "store_sql" ->
         [caches |-> storeSql(caches, stream, request),
          out |-> Returned(rows, calls, [type |-> "store_sql"])]
    [] request.type = "close_sql" ->
         [caches |-> closeSql(caches, stream, request),
          out |-> Returned(rows, calls, [type |-> "close_sql"])]
    [] request.type = "get_autocommit" ->
         [caches |-> caches,
          out |-> Returned(rows, calls, [type |-> "get_autocommit", is_autocommit |-> TRUE])]
    [] OTHER ->
         [caches |-> caches,
          out |-> Thrown(rows, calls, "Unknown request type: " \o request.type)]

(***************************************************************************)
(* The inputs of the model.                                                *)
(***************************************************************************)
SqlIds == {1}

StreamRequests ==
  {[type |-> "close"], [type |-> "get_autocommit"], [type |-> "ping"]}
  \cup {[type |-> "store_sql", sql_id |-> i, sql |-> q] :
          i \in SqlIds, q \in {InsertRow, EmptySql}}
  \cup {[type |-> "close_sql", sql_id |-> i] : i \in SqlIds}
  \cup {[type |-> "execute", stmt |-> [sql |-> q]] :
          q \in {SelectRows, InsertRow, SelectBad, BeginTx}}
  \cup {[type |-> "execute", stmt |-> [sql_id |-> i]] : i \in SqlIds}
  \cup {[type |-> "execute", stmt |-> [want_rows |-> TRUE]]}

BodyKinds == {"ok", "badjson", "norequests"}

\* What the clients of a specification send: the stream requests, the pipeline
\* endpoints (protocol versions) and the kinds of body; how many pipelines they
\* get accepted (each mints one baton); and whether they wait for the response
\* to one request before they send the next (serial).
AnyClients ==
  [requests |-> StreamRequests, versions |-> {2, 3}, kinds |-> BodyKinds,
   batons |-> MaxBatons, serial |-> FALSE]

\* Clients that run statements and cache SQL on their streams.
PipelineClients ==
  [requests |->
     {[type |-> "store_sql", sql_id |-> 1, sql |-> InsertRow],
      [type |-> "store_sql", sql_id |-> 1, sql |-> EmptySql],
      [type |-> "close_sql", sql_id |-> 1],
      [type |-> "execute", stmt |-> [sql_id |-> 1]],
      [type |-> "execute", stmt |-> [sql |-> SelectRows]],
      [type |-> "execute", stmt |-> [sql |-> SelectBad]],
      [type |-> "ping"]},
   versions |-> {2}, kinds |-> {"ok"}, batons |-> MaxBatons - 1, serial |-> FALSE]

\* Clients that open, continue and close streams.
RegistryClients ==
  [requests |-> {[type |-> "close"], [type |-> "get_autocommit"]},
   versions |-> {2}, kinds |-> {"ok", "norequests"}, batons |-> MaxBatons,
   serial |-> FALSE]

\* Clients that keep a session: they cache SQL on a stream and refer to it in
\* later pipelines.
SessionClients ==
  [requests |->
     {[type |-> "store_sql", sql_id |-> 1, sql |-> InsertRow],
      [type |-> "store_sql", sql_id |-> 1, sql |-> SelectRows],
      [type |-> "close_sql", sql_id |-> 1],
      [type |-> "execute", stmt |-> [sql_id |-> 1]]},
   versions |-> {2}, kinds |-> {"ok"}, batons |-> MaxBatons, serial |-> TRUE]

\* Clients of both pipeline endpoints that execute statements, transaction
\* control among them, one request at a time.
ExecClients ==
  [requests |->
     {[type |-> "execute", stmt |-> [sql |-> q]] :
        q \in {BeginTx, CommitTx, RollbackTx, InsertRow, SelectRows}},
   versions |-> {2, 3}, kinds |-> {"ok"}, batons |-> MaxBatons - 1, serial |-> TRUE]

\* Batches: a first step without condition, then steps that insert a row on a
\* condition about the first step.
StepConds ==
  LET leaf == {[type |-> t, step |-> 0] : t \in {"ok", "error"}}
  IN leaf \cup {[type |-> "not", cond |-> c] : c \in leaf}

GuardedSteps == {[stmt |-> [sql |-> InsertRow], condition |-> c] : c \in StepConds}

BatchRequests ==
  {[type |-> "batch", batch |-> [steps |-> <<[stmt |-> [sql |-> q]]>> \o rest]] :
     q \in {SelectBad, SelectRows},
     rest \in UNION {[1..n -> GuardedSteps] : n \in 1..(MaxSteps - 1)}}

\* Clients that send batches, one request at a time.
BatchClients ==
  [requests |-> BatchRequests,
   versions |-> {2}, kinds |-> {"ok"}, batons |-> MaxBatons - 1, serial |-> TRUE]

\* Clients of the V1 endpoint, which also open streams on /v2/pipeline; one
\* request at a time, and V1 statements as long as the backend has been called
\* less than `calls` times.
V1Clients ==
  [requests |-> {[type |-> "get_autocommit"]},
   versions |-> {2}, kinds |-> BodyKinds, batons |-> MaxBatons - 1, serial |-> TRUE,
   statements |-> {InsertRow, SelectRows, SelectBad},
   v1kinds |-> {"ok", "badjson", "nostatements"}, calls |-> MaxCalls]

\* Requests that name their SQL by sql_id or not at all, as an execute, the one
\* step of a batch, a sequence and a describe.
SqlReferences == {[want_rows |-> TRUE]} \cup {[sql_id |-> i] : i \in SqlIds}

ReferringRequests ==
  {[type |-> "execute", stmt |-> ref] : ref \in SqlReferences}
  \cup {[type |-> "batch", batch |-> [steps |-> <<[stmt |-> ref]>>]] : ref \in SqlReferences}
  \cup {[type |-> "sequence"], [type |-> "describe"]}
  \cup {[type |-> t, sql_id |-> i] : t \in {"sequence", "describe"}, i \in SqlIds}

\* Clients that refer to SQL they have stored, or have not; one request at a time.
ReferringClients ==
  [requests |->
     ReferringRequests \cup {[type |-> "store_sql", sql_id |-> 1, sql |-> InsertRow]},
   versions |-> {2}, kinds |-> {"ok"}, batons |-> MaxBatons - 1, serial |-> TRUE]

\* BEGIN, COMMIT and ROLLBACK as an execute, the one step of a batch and a sequence.
TxRequests ==
  {[type |-> "execute", stmt |-> [sql |-> q]] : q \in {BeginTx, CommitTx, RollbackTx}}
  \cup {[type |-> "batch", batch |-> [steps |-> <<[stmt |-> [sql |-> q]]>>]] :
          q \in {BeginTx, CommitTx, RollbackTx}}
  \cup {[type |-> "sequence", sql |-> q] : q \in {BeginTx, CommitTx, RollbackTx}}

\* Clients that send transaction control on every path, one request at a time.
TxClients ==
  [requests |-> TxRequests, versions |-> {2}, kinds |-> {"ok"},
   batons |-> MaxBatons - 2, serial |-> TRUE,
   statements |-> {BeginTx, CommitTx, RollbackTx}, v1kinds |-> {"ok"},
   calls |-> MaxCalls - 1]

\* Clients of both pipeline endpoints whose requests are in flight at once.
RaceClients ==
  [requests |-> {[type |-> "execute", stmt |-> [sql |-> SelectRows]]},
   versions |-> {2, 3}, kinds |-> {"ok"}, batons |-> MaxBatons - 1, serial |-> FALSE]

\* Clients that send every method to every path; their pipelines and V1 batches
\* hold at most one request.
RouterClients ==
  [requests |-> {[type |-> "execute", stmt |-> [sql |-> InsertRow]]},
   versions |-> {2, 3}, kinds |-> {"ok"}, batons |-> MaxBatons - 2, serial |-> TRUE,
   statements |-> {InsertRow}, v1kinds |-> {"ok"}, calls |-> MaxCalls - 2]

(***************************************************************************)
(* Routing: handleRequest maps the method and the path of the URL to a     *)
(* handler, by equality of strings.                                        *)
(***************************************************************************)
Methods == {"GET", "POST", "DELETE"}

RoutePaths ==
  {"/", "/v1", "/v2", "/v3", "/v3-protobuf", "/v2/pipeline", "/v3/pipeline",
   "/health", "/version"}

\* The routes, the same with a slash at the end, and a path that is no route.
Paths == RoutePaths \cup {path \o "/" : path \in RoutePaths \ {"/"}} \cup {"/nowhere"}

PipelineRoute(version) == [handler |-> "pipeline", version |-> version]
V1Route == [handler |-> "v1"]

\* new Response(body, {status}) built by handleRequest itself.
StaticRoute(status, text, error, version) ==
  [handler |-> "static", status |-> status, text |-> text, error |-> error,
   version |-> version]

NotFoundRoute == StaticRoute(404, "", "Not found", "")

\* Mutant: POST to a path that is no route goes to the default (V1) endpoint.
handleRequest_default(method, path) ==
  IF method = "POST" THEN
    (IF path = "/v3/pipeline" THEN PipelineRoute(3)
     ELSE IF path = "/v2/pipeline" THEN PipelineRoute(2) ELSE V1Route)
  ELSE IF method = "GET" /\ path \in {"/v3", "/v2", "/health"}
  THEN StaticRoute(200, "OK", "", "")
  ELSE NotFoundRoute

\* handleRequest: the handler that the chain of `if (method === ... && path === ...)`
\* selects.
handleRequest(method, path) ==
  IF method = "GET" /\ path = "/v3-protobuf" THEN StaticRoute(404, "Not Found", "", "")
  ELSE IF method = "GET" /\ path = "/v3" THEN StaticRoute(200, "OK", "", "")
  ELSE IF method = "GET" /\ path = "/v2" THEN StaticRoute(200, "OK", "", "")
  ELSE IF method = "POST" /\ path = "/v3/pipeline" THEN PipelineRoute(3)
  ELSE IF method = "POST" /\ path = "/v2/pipeline" THEN PipelineRoute(2)
  ELSE IF method = "POST" /\ (path = "/" \/ path = "/v1") THEN V1Route
  ELSE IF method = "GET" /\ path = "/health" THEN StaticRoute(200, "OK", "", "")
  ELSE IF method = "GET" /\ path = "/version"
  THEN StaticRoute(200, "", "", "libsql-do-http-0.1.0")
  ELSE NotFoundRoute

\* The paths on which a POST reaches handlePipeline with each protocol version,
\* and handleV1Batch.
PipelinePaths ==
  [version \in {2, 3} |->
     {path \in Paths : handleRequest("POST", path) = PipelineRoute(version)}]

V1Paths == {path \in Paths : handleRequest("POST", path) = V1Route}

(***************************************************************************)
(* State.                                                                  *)
(*   streams          this.streams: baton -> StreamState (an object, named *)
(*                    here by the baton minted when it was created)        *)
(*   streamTimeouts   this.streamTimeouts: baton -> armed timer, kept as   *)
(*                    the time left until its callback is due              *)
(*   storedSql        StreamState.storedSql of every stream object         *)
(*   protocolVersion  this.protocolVersion                                 *)
(*   db, backendCalls the backend: rows of table t, calls of sql.exec      *)
(*   nextBaton        the random source of generateBaton                   *)
(*   pc, request, local, response                                         *)
(*                    per HTTP request in flight: position of its handler, *)
(*                    the request received, the handler's locals, the      *)
(*                    response sent                                        *)
(*                    (local.rowsAtStart: the rows of t when a V1 request  *)
(*                    began to execute its statements)                     *)
(*   returned         batons that clients have received in a response      *)
(*   consumed         batons that were presented, found and deleted        *)
(*   expired          batons whose binding a timer callback has dropped    *)
(*   expected         for every baton returned in a response, the stored   *)
(*                    SQL its client expects on the stream: what the       *)
(*                    store_sql and close_sql requests it has sent along   *)
(*                    the chain of batons amount to                        *)
(*   codec            a value on its way through the value codec: encoded  *)
(*                    in a response, decoded as an argument                *)
(* and of AuthDO, the Durable Object that owns the server:                 *)
(*   clock            Date.now(), in seconds                               *)
(*   storage          the tables user, account, session and verification   *)
(*                    of this.sql                                          *)
(*   nextToken        the random source of generateToken                   *)
(*   call             per RPC call in flight: the method, its arguments    *)
(*                    and locals, and the await it is suspended at         *)
(*   ret              the call that returned in the last step, with the    *)
(*                    value it returned                                    *)
(*   history          the session tokens passed to signOut, the session    *)
(*                    tokens a resetPassword deleted and the reset tokens  *)
(*                    a resetPassword succeeded with                       *)
(***************************************************************************)
VARIABLES streams, streamTimeouts, storedSql, protocolVersion, db, backendCalls,
          nextBaton, pc, request, local, response, returned, consumed, expired,
          expected, codec, clock, storage, nextToken, call, ret, history

authVars == <<clock, storage, nextToken, call, ret, history>>

vars == <<streams, streamTimeouts, storedSql, protocolVersion, db, backendCalls,
          nextBaton, pc, request, local, response, returned, consumed, expired,
          expected, codec, authVars>>

serverVars ==
  <<streams, streamTimeouts, storedSql, protocolVersion, db, backendCalls,
    nextBaton, pc, request, local, response, returned, consumed, expired, expected>>

InvalidJson      == "Invalid JSON in request body"
RequestsRequired == "Invalid request: requests array required"
InvalidBaton     == "Invalid or expired baton"

NoPending  == [type |-> "none"]
NoRequest  == [method |-> "", path |-> "", version |-> 2, kind |-> "ok",
               baton |-> NullBaton, n |-> 0, registered |-> FALSE]
NoLocal    == [stream |-> NullBaton, newBaton |-> NullBaton, requests |-> <<>>,
               pending |-> NoPending, results |-> <<>>, rowsAtStart |-> 0]
NoResponse == [status |-> 0, baton |-> NullBaton, results |-> <<>>, error |-> ""]

NoCodec == [phase |-> "none"]

NoCall == [op |-> "idle"]
NoRet  == [op |-> "none"]

\* AuthDO after its constructor: initBetterAuthTables has created the tables.
InitAuthDO ==
  /\ clock = 0
  /\ storage = [user |-> {}, account |-> {}, session |-> {}, verification |-> {}]
  /\ nextToken = 1
  /\ call = [c \in Slots |-> NoCall]
  /\ ret = NoRet
  /\ history = [signedOut |-> {}, revoked |-> {}, used |-> {}]

InitServer ==
  /\ streams = EmptyMap
  /\ streamTimeouts = EmptyMap
  /\ storedSql = EmptyMap
  /\ protocolVersion = 2
  /\ db = 0
  /\ backendCalls = 0
  /\ nextBaton = 1
  /\ pc = [r \in Slots |-> "idle"]
  /\ request = [r \in Slots |-> NoRequest]
  /\ local = [r \in Slots |-> NoLocal]
  /\ response = [r \in Slots |-> NoResponse]
  /\ returned = {}
  /\ consumed = {}
  /\ expired = {}
  /\ expected = EmptyMap

Init == InitServer /\ codec = NoCodec /\ InitAuthDO

(***************************************************************************)
(* Stream registry.                                                        *)
(***************************************************************************)
\* Mutant: a random source that repeats itself.
generateBaton_repeat == IF nextBaton > 1 THEN nextBaton - 1 ELSE nextBaton

\* generateBaton: 32 random bytes, hex-encoded.  The model draws the batons
\* 1, 2, 3, ... : a value is never drawn twice.
generateBaton == nextBaton

\* resetStreamTimeout(baton): clear the timer kept under this baton, arm a new one.
resetStreamTimeout(timeouts, baton) == mapSet(timeouts, baton, STREAM_TIMEOUT_MS)

\* handlePipeline, baton === null: bind a new stream to the new baton.
createStream(registry, newBaton, stream) == mapSet(registry, newBaton, stream)

\* new StreamState(), on the storedSql maps of all stream objects.
allocStream(caches, stream) == mapSet(caches, stream, newStreamState)

\* Mutant: the new baton is bound to the oldest stream of the registry.
rotateBaton_first(registry, baton, newBaton) ==
  mapSet(mapDelete(registry, baton), newBaton, 1)

\* Mutant: the presented baton is not deleted.
rotateBaton_keep(registry, baton, newBaton) == mapSet(registry, newBaton, registry[baton])

\* handlePipeline, baton presented and found: delete it, bind the stream to the
\* new baton.
rotateBaton(registry, baton, newBaton) ==
  mapSet(mapDelete(registry, baton), newBaton, registry[baton])

\* Mutant: the callback clears the registry.
timerCallback_all(registry, baton) == EmptyMap

\* Mutant: the callback forgets to drop the stream.
timerCallback_keep(registry, baton) == registry

\* The callback of the timer armed for a baton.
timerCallback(registry, baton) == mapDelete(registry, baton)

(***************************************************************************)
(* Pipeline engine.                                                        *)
(***************************************************************************)
\* Mutant: the catch records the failure as an ok result.
streamResult_ok(out) ==
  [type |-> "ok", response |-> IF out.threw THEN [type |-> "error"] ELSE out.value]

\* The settled promise of handleStreamRequest as the loop of handlePipeline
\* records it: results.push({type:'ok', response}) or, in the catch,
\* results.push({type:'error', error:{message}}).
streamResult(out) ==
  IF out.threw
  THEN [type |-> "error",
        error |-> [message |-> IF out.value = "" THEN "Request failed" ELSE out.value]]
  ELSE [type |-> "ok", response |-> out.value]

\* Mutant: results.unshift instead of results.push.
pushResult_front(results, result) == <<result>> \o results

pushResult(results, result) == Append(results, result)

\* new Response(JSON.stringify(...), {status})
Respond(r, status, baton, results, error) ==
  /\ pc' = [pc EXCEPT ![r] = "done"]
  /\ response' = [response EXCEPT ![r] =
       [status |-> status, baton |-> baton, results |-> results, error |-> error]]
  /\ returned' = IF status = 200 THEN returned \cup {baton} ELSE returned

\* Mutant: the new baton is minted and armed before the presented one is looked up.
Reject_minted(r, error) ==
  /\ Respond(r, 400, NullBaton, <<>>, error)
  /\ nextBaton' = nextBaton + 1
  /\ streamTimeouts' = resetStreamTimeout(streamTimeouts, generateBaton)
  /\ UNCHANGED <<streams, storedSql, db, backendCalls, local, consumed, expected>>

\* A 400 answer of handlePipeline that leaves the server as it is.
Reject(r, error) ==
  /\ Respond(r, 400, NullBaton, <<>>, error)
  /\ UNCHANGED <<streams, streamTimeouts, storedSql, db, backendCalls, nextBaton, local,
                 consumed, expected>>

\* What a client expects of the stored SQL of its stream after it has sent
\* requests: store_sql adds or replaces, close_sql removes.
RECURSIVE StoredAfter(_, _)
StoredAfter(requests, cache) ==
  IF requests = <<>> THEN cache
  ELSE LET req == requests[1]
           next == CASE req.type = "store_sql" -> mapSet(cache, req.sql_id, req.sql)
                     [] req.type = "close_sql" -> mapDelete(cache, req.sql_id)
                     [] OTHER -> cache
       IN StoredAfter(Tail(requests), next)

\* What the client that presents a baton expects of the stored SQL of its stream.
ExpectedAt(baton) == IF baton \in DOMAIN expected THEN expected[baton] ELSE EmptyMap

\* The loop of handlePipeline from the test `i < requests.length` on: call
\* handleStreamRequest(requests[i], stream) and suspend at its await, or leave the
\* loop and answer 200 with the new baton.  loc is the handler's locals and caches
\* the storedSql of all streams at this point; the requests come from clients.
RunLoop(r, loc, caches, clients) ==
  IF Len(loc.requests) < request[r].n
  THEN \E req \in clients.requests :
         LET h == handleStreamRequest(req, loc.stream, caches, db, backendCalls,
                                      protocolVersion)
         IN /\ storedSql' = h.caches
            /\ db' = h.out.db
            /\ backendCalls' = h.out.calls
            /\ local' = [local EXCEPT ![r] =
                 [loc EXCEPT !.requests = Append(@, req),
                             !.pending = streamResult(h.out)]]
            /\ pc' = [pc EXCEPT ![r] = "run"]
            /\ UNCHANGED <<response, returned, expected>>
  ELSE /\ storedSql' = caches
       /\ local' = [local EXCEPT ![r] = loc]
       /\ UNCHANGED <<db, backendCalls>>
       /\ Respond(r, 200, loc.newBaton, loc.results, "")
       /\ expected' = mapSet(expected, loc.newBaton,
                             StoredAfter(loc.requests, ExpectedAt(request[r].baton)))

(***************************************************************************)
(* Actions.                                                                *)
(***************************************************************************)
\* Slots are names of the requests in flight.  With serial clients every slot is
\* free when a request arrives; it takes them in turn, so that what was sent and
\* answered in consecutive accepted pipelines stays side by side.
SerialSlot == (nextBaton % NumSlots) + 1

\* handleRequest for POST /v2/pipeline or /v3/pipeline, up to
\* `await request.json()` in handlePipeline.
Receive(r, clients) ==
  /\ pc[r] \in {"idle", "done"}
  /\ clients.serial => /\ \A other \in Slots : pc[other] \in {"idle", "done"}
                       /\ r = SerialSlot
  /\ \E version \in clients.versions, kind \in clients.kinds,
        baton \in returned \cup {NullBaton, ForgedBaton}, n \in 0..MaxReqs :
      \E path \in PipelinePaths[version] :
       /\ kind = "badjson" => baton = NullBaton
       /\ kind # "ok" => n = 0
       /\ protocolVersion' = version
       /\ request' = [request EXCEPT ![r] =
            [method |-> "POST", path |-> path, version |-> version, kind |-> kind,
             baton |-> baton, n |-> n, registered |-> baton \in DOMAIN streams]]
  /\ pc' = [pc EXCEPT ![r] = "body"]
  /\ local' = [local EXCEPT ![r] = NoLocal]
  /\ response' = [response EXCEPT ![r] = NoResponse]
  /\ UNCHANGED <<streams, streamTimeouts, storedSql, db, backendCalls, nextBaton,
                 returned, consumed, expired, expected, codec, authVars>>

\* handlePipeline from the parsed body to the first await of the loop, or to the
\* response.
Body(r, clients) ==
  /\ pc[r] = "body"
  /\ UNCHANGED <<protocolVersion, request, expired, codec, authVars>>
  /\ LET baton == request[r].baton IN
     IF request[r].kind = "badjson" THEN Reject(r, InvalidJson)
     ELSE IF request[r].kind = "norequests" THEN Reject(r, RequestsRequired)
     ELSE IF baton = NullBaton
     THEN /\ nextBaton <= clients.batons
          /\ LET newBaton == generateBaton
                 stream   == newBaton
             IN /\ streams' = createStream(streams, newBaton, stream)
                /\ streamTimeouts' = resetStreamTimeout(streamTimeouts, newBaton)
                /\ nextBaton' = nextBaton + 1
                /\ UNCHANGED consumed
                /\ RunLoop(r, [NoLocal EXCEPT !.stream = stream, !.newBaton = newBaton],
                           allocStream(storedSql, stream), clients)
     ELSE IF baton \notin DOMAIN streams THEN Reject(r, InvalidBaton)
     ELSE /\ nextBaton <= clients.batons
          /\ LET newBaton == generateBaton
             IN /\ streams' = rotateBaton(streams, baton, newBaton)
                /\ streamTimeouts' = resetStreamTimeout(streamTimeouts, newBaton)
                /\ nextBaton' = nextBaton + 1
                /\ consumed' = consumed \cup {baton}
                /\ RunLoop(r, [NoLocal EXCEPT !.stream = streams[baton],
                                              !.newBaton = newBaton], storedSql, clients)

\* handlePipeline resumed after `await this.handleStreamRequest(...)`: record the
\* outcome, i++, and go on with the loop.
Resume(r, clients) ==
  /\ pc[r] = "run"
  /\ RunLoop(r, [local[r] EXCEPT !.results = pushResult(@, local[r].pending),
                                 !.pending = NoPending], storedSql, clients)
  /\ UNCHANGED <<streams, streamTimeouts, nextBaton, protocolVersion, request, consumed,
                 expired, codec, authVars>>

\* The callback of the timer armed by resetStreamTimeout(baton) runs once the
\* timeout has elapsed.
TimerFire(baton) ==
  /\ baton \in DOMAIN streamTimeouts
  /\ streamTimeouts[baton] = 0
  /\ streams' = timerCallback(streams, baton)
  /\ streamTimeouts' = mapDelete(streamTimeouts, baton)
  /\ expired' = IF baton \in DOMAIN streams THEN expired \cup {baton} ELSE expired
  /\ UNCHANGED <<storedSql, protocolVersion, db, backendCalls, nextBaton, pc, request,
                 local, response, returned, consumed, expected, codec, authVars>>

\* TickMs milliseconds pass.
Tick ==
  /\ \E b \in DOMAIN streamTimeouts : streamTimeouts[b] > 0
  /\ streamTimeouts' = [b \in DOMAIN streamTimeouts |->
                          IF streamTimeouts[b] > TickMs THEN streamTimeouts[b] - TickMs
                          ELSE 0]
  /\ UNCHANGED <<streams, storedSql, protocolVersion, db, backendCalls, nextBaton, pc,
                 request, local, response, returned, consumed, expired, expected, codec, authVars>>

(***************************************************************************)
(* V1 batch endpoint: POST / and POST /v1.                                 *)
(***************************************************************************)
StatementsRequired == "Invalid request: statements array required"
JsonSyntaxError    == "Unexpected end of JSON input"

\* new Response(JSON.stringify(...), {status}) of handleV1Batch.
RespondV1(r, status, results, error) ==
  /\ pc' = [pc EXCEPT ![r] = "done"]
  /\ response' = [response EXCEPT ![r] =
       [status |-> status, baton |-> NullBaton, results |-> results, error |-> error]]

\* Mutant: the catch answers with the results collected so far.
v1Failure_partial(results, message) ==
  [results |-> results, error |-> IF message = "" THEN "Query execution failed" ELSE message]

\* The catch of handleV1Batch: {error: error.message || 'Query execution failed'}.
v1Failure(results, message) ==
  [results |-> <<>>, error |-> IF message = "" THEN "Query execution failed" ELSE message]

\* results.push({results: {columns, rows, rows_read, rows_written, query_duration_ms}})
\* (query_duration_ms is a measurement; the model records 0).
v1Result(result) ==
  [results |-> [columns |-> result.columns, rows |-> result.rows,
                rows_read |-> result.rowsRead, rows_written |-> result.rowsWritten,
                query_duration_ms |-> 0]]

\* The loop of handleV1Batch from the next statement on: call executeQuery and
\* suspend at its await, or leave the loop and answer 200 with the results.
RunV1(r, loc, clients) ==
  IF Len(loc.requests) < request[r].n
  THEN \E query \in clients.statements :
         LET out == executeQuery(query, db, backendCalls)
         IN /\ db' = out.db
            /\ backendCalls' = out.calls
            /\ local' = [local EXCEPT ![r] =
                 [loc EXCEPT !.requests = Append(@, query), !.pending = out]]
            /\ pc' = [pc EXCEPT ![r] = "v1run"]
            /\ UNCHANGED response
  ELSE /\ local' = [local EXCEPT ![r] = loc]
       /\ UNCHANGED <<db, backendCalls>>
       /\ RespondV1(r, 200, loc.results, "")

\* handleRequest for POST / or POST /v1, up to `await request.json()` in
\* handleV1Batch.
ReceiveV1(r, clients) ==
  /\ pc[r] \in {"idle", "done"}
  /\ clients.serial => /\ \A other \in Slots : pc[other] \in {"idle", "done"}
                       /\ r = SerialSlot
  /\ \E path \in V1Paths, kind \in clients.v1kinds, n \in 0..MaxReqs :
       /\ kind # "ok" => n = 0
       /\ backendCalls + n <= clients.calls
       /\ request' = [request EXCEPT ![r] =
            [method |-> "POST", path |-> path, version |-> 1, kind |-> kind,
             baton |-> NullBaton, n |-> n, registered |-> FALSE]]
  /\ pc' = [pc EXCEPT ![r] = "v1body"]
  /\ local' = [local EXCEPT ![r] = NoLocal]
  /\ response' = [response EXCEPT ![r] = NoResponse]
  /\ UNCHANGED <<streams, streamTimeouts, storedSql, protocolVersion, db, backendCalls,
                 nextBaton, returned, consumed, expired, expected, codec, authVars>>

\* handleV1Batch from the parsed body to the first await of the loop, or to the
\* response.
BodyV1(r, clients) ==
  /\ pc[r] = "v1body"
  /\ UNCHANGED <<streams, streamTimeouts, storedSql, protocolVersion, nextBaton, request,
                 returned, consumed, expired, expected, codec, authVars>>
  /\ IF request[r].kind = "badjson"
     THEN /\ RespondV1(r, 400, v1Failure(<<>>, JsonSyntaxError).results,
                       v1Failure(<<>>, JsonSyntaxError).error)
          /\ UNCHANGED <<db, backendCalls, local>>
     ELSE IF request[r].kind = "nostatements"
     THEN /\ RespondV1(r, 400, <<>>, StatementsRequired)
          /\ UNCHANGED <<db, backendCalls, local>>
     ELSE RunV1(r, [NoLocal EXCEPT !.rowsAtStart = db], clients)

\* handleV1Batch resumed after `await this.executeQuery(query)`: the catch if it
\* threw, else record the result and go on with the loop.
ResumeV1(r, clients) ==
  /\ pc[r] = "v1run"
  /\ UNCHANGED <<streams, streamTimeouts, storedSql, protocolVersion, nextBaton, request,
                 returned, consumed, expired, expected, codec, authVars>>
  /\ LET out == local[r].pending IN
     IF out.threw
     THEN /\ RespondV1(r, 400, v1Failure(local[r].results, out.value).results,
                       v1Failure(local[r].results, out.value).error)
          /\ UNCHANGED <<db, backendCalls, local>>
     ELSE RunV1(r, [local[r] EXCEPT !.results = Append(@, v1Result(out.value)),
                                    !.pending = NoPending], clients)

Next(clients) ==
  \/ \E r \in Slots : Receive(r, clients)
  \/ \E r \in Slots : Body(r, clients)
  \/ \E r \in Slots : Resume(r, clients)
  \/ \E b \in DOMAIN streamTimeouts : TimerFire(b)
  \/ Tick

(***************************************************************************)
(* The value codec on its own: a value of the backend is encoded as a row  *)
(* value of a response of version 1, 2 or 3, and the encoded value is sent *)
(* back as an argument of a statement of the same version.                 *)
(***************************************************************************)
ByteValues == {0, 65, 255}

Blobs == UNION {[1..n -> ByteValues] : n \in 0..MaxBytes}

CodecValues ==
  {[t |-> "null"]}
  \cup {[t |-> "number", n |-> k] : k \in {-1, 0, 42}}
  \cup {[t |-> "number", n |-> k, half |-> TRUE] : k \in {0, 1}}
  \cup {[t |-> "string", s |-> x] : x \in {"", "a", "42"}}
  \cup {[t |-> "bytes", b |-> x] : x \in Blobs}

InitCodec ==
  /\ InitServer /\ InitAuthDO
  /\ codec \in {[phase |-> "value", version |-> k, value |-> v] :
                  k \in {1, 2, 3}, v \in CodecValues}

\* executeQuery (V1) or executeStatement (v2, v3) converts the value of a row.
EncodeValue ==
  /\ codec.phase = "value"
  /\ codec' = [phase |-> "wire", version |-> codec.version, value |-> codec.value,
               wire |-> IF codec.version = 1 THEN convertToSqlValue(codec.value)
                        ELSE convertToHranaValue(codec.value)]
  /\ UNCHANGED <<serverVars, authVars>>

\* executeQuery (V1) or handleExecute (v2, v3) takes the encoded value as the one
\* argument of a statement.
DecodeValue ==
  /\ codec.phase = "wire"
  /\ codec' = [phase |-> "decoded", version |-> codec.version, value |-> codec.value,
               wire |-> codec.wire,
               decoded |-> IF codec.version = 1 THEN normalizeParams(<<codec.wire>>)[1]
                           ELSE parseArgs(<<codec.wire>>)[1]]
  /\ UNCHANGED <<serverVars, authVars>>

NextCodec == EncodeValue \/ DecodeValue

SpecCodec == InitCodec /\ [][NextCodec]_vars

\* handleRequest for a method and path that it answers itself, without an await.
Static(r, clients) ==
  /\ pc[r] \in {"idle", "done"}
  /\ clients.serial => /\ \A other \in Slots : pc[other] \in {"idle", "done"}
                       /\ r = SerialSlot
  /\ \E method \in Methods, path \in Paths :
       LET route == handleRequest(method, path) IN
       /\ route.handler = "static"
       /\ request' = [request EXCEPT ![r] =
            [method |-> method, path |-> path, version |-> 0, kind |-> "static",
             baton |-> NullBaton, n |-> 0, registered |-> FALSE]]
       /\ response' = [response EXCEPT ![r] =
            [status |-> route.status, baton |-> NullBaton, results |-> <<>>,
             error |-> route.error, text |-> route.text, version |-> route.version]]
  /\ pc' = [pc EXCEPT ![r] = "done"]
  /\ local' = [local EXCEPT ![r] = NoLocal]
  /\ UNCHANGED <<streams, streamTimeouts, storedSql, protocolVersion, db, backendCalls,
                 nextBaton, returned, consumed, expired, expected, codec, authVars>>

(***************************************************************************)
(* The statement executor on its own: one SQL text is executed, or         *)
(* described, on protocol version 2 or 3 and a table of some rows.         *)
(***************************************************************************)
\* Statements whose first token is BEGIN, COMMIT, ROLLBACK, SAVEPOINT or RELEASE.
TxSql ==
  {BeginTx, " begin ", "begin transaction", "BEGIN IMMEDIATE", "begin deferred transaction",
   "BEGIN EXCLUSIVE", CommitTx, "commit", "COMMIT;", RollbackTx, "rollback",
   "ROLLBACK TO sp", "SAVEPOINT sp", "savepoint sp", "RELEASE sp", "release savepoint sp"}

StatementSql == TxSql \cup SelectSql \cup InsertSql \cup RowlessSql \cup {SelectBad}

InitStatement ==
  /\ InitServer /\ InitAuthDO
  /\ codec \in {[phase |-> "sql", sql |-> sql, version |-> version, rows |-> rows] :
                  sql \in StatementSql, version \in {2, 3}, rows \in 0..MaxRows}

\* executeStatement(codec.sql) with this.protocolVersion = codec.version.
ExecuteOne ==
  /\ codec.phase = "sql"
  /\ codec' = [phase |-> "executed", sql |-> codec.sql, version |-> codec.version,
               rows |-> codec.rows,
               out |-> executeStatement(codec.sql, codec.rows, 0, codec.version)]
  /\ UNCHANGED <<serverVars, authVars>>

\* handleDescribe({type: 'describe', sql: codec.sql}).
DescribeOne ==
  /\ codec.phase = "sql"
  /\ codec' = [phase |-> "described", sql |-> codec.sql, version |-> codec.version,
               rows |-> codec.rows,
               out |-> handleDescribe([type |-> "describe", sql |-> codec.sql],
                                      EmptyMap, codec.rows, 0)]
  /\ UNCHANGED <<serverVars, authVars>>

NextStatement == ExecuteOne \/ DescribeOne

SpecStatement == InitStatement /\ [][NextStatement]_vars

(***************************************************************************)
(* A batch on its own: one batch request of a v2 pipeline on a new stream  *)
(* and an empty table, whose steps insert a row or fail, under conditions  *)
(* about any step of the batch.                                            *)
(***************************************************************************)
AnyConds ==
  LET leaf == {[type |-> t, step |-> i] : t \in {"ok", "error"}, i \in 0..(MaxSteps - 1)}
  IN leaf \cup {[type |-> "not", cond |-> c] : c \in leaf}

AnySteps ==
  {[stmt |-> [sql |-> q]] : q \in {InsertRow, SelectBad}}
  \cup {[stmt |-> [sql |-> q], condition |-> c] : q \in {InsertRow, SelectBad}, c \in AnyConds}

AnyBatches ==
  {[type |-> "batch", batch |-> [steps |-> steps]] :
     steps \in UNION {[1..n -> AnySteps] : n \in 1..MaxSteps}}

InitBatch ==
  /\ InitServer /\ InitAuthDO
  /\ codec \in {[phase |-> "batch", request |-> req] : req \in AnyBatches}

\* The loop of handlePipeline for the one request codec.request.
RunBatch ==
  /\ codec.phase = "batch"
  /\ codec' = [phase |-> "ran", request |-> codec.request,
               result |-> streamResult(
                 handleStreamRequest(codec.request, 1, 1 :> EmptyMap, 0, 0, 2).out),
               db |-> handleStreamRequest(codec.request, 1, 1 :> EmptyMap, 0, 0, 2).out.db]
  /\ UNCHANGED <<serverVars, authVars>>

SpecOneBatch == InitBatch /\ [][RunBatch]_vars

(***************************************************************************)
(* Decoding on its own: an argument as it arrives in a v2/v3 statement,    *)
(* with the value that it denotes, is decoded by parseArgs.                *)
(***************************************************************************)
\* A value as a raw scalar and in each tagged form that denotes it.
WireForms(value) ==
  CASE value.t = "null" -> {value, [type |-> "null"]}
    [] value.t = "string" -> {value, [type |-> "text", value |-> value]}
    [] value.t = "number" /\ isInteger(value) ->
         {value, [type |-> "integer", value |-> value],
          [type |-> "integer", value |-> [t |-> "string", s |-> ToString(value.n)]]}
    [] value.t = "number" /\ ~isInteger(value) ->
         {value, [type |-> "float", value |-> value]}
    [] value.t = "bytes" ->
         {[type |-> "blob", value |-> [t |-> "string", s |-> btoa(value.b)]],
          [type |-> "blob", base64 |-> [t |-> "string", s |-> btoa(value.b)]]}

InitDecode ==
  /\ InitServer /\ InitAuthDO
  /\ codec \in {[phase |-> "arg", value |-> value, wire |-> wire] :
                  value \in CodecValues, wire \in UNION {WireForms(v) : v \in CodecValues}}
  /\ codec.wire \in WireForms(codec.value)

\* handleExecute: parseArgs(stmt.args) of the one argument codec.wire.
DecodeArg ==
  /\ codec.phase = "arg"
  /\ codec' = [phase |-> "parsed", value |-> codec.value, wire |-> codec.wire,
               decoded |-> parseArgs(<<codec.wire>>)[1]]
  /\ UNCHANGED <<serverVars, authVars>>

SpecDecode == InitDecode /\ [][DecodeArg]_vars

(***************************************************************************)
(* Parameter binding on its own: a statement with positional and named     *)
(* arguments is given to handleExecute, which passes params to the backend.*)
(***************************************************************************)
ArgValues ==
  {[t |-> "number", n |-> 1], [type |-> "text", value |-> [t |-> "string", s |-> "x"]]}

ArgLists == UNION {[1..n -> ArgValues] : n \in 0..MaxArgs}

\* Lists of {name, value} with distinct names.
NamedLists ==
  {list \in UNION {[1..n -> [name : {"a", "b"}, value : ArgValues]] : n \in 1..MaxArgs} :
     \A i, j \in 1..Len(list) : i # j => list[i].name # list[j].name}

NamedArgs == {[list |-> list] : list \in NamedLists} \cup {[map |-> list] : list \in NamedLists}

BoundSql == {"SELECT ?, ?", "SELECT :a, :b"}

BoundStmts ==
  {[sql |-> sql] : sql \in BoundSql}
  \cup {[sql |-> sql, args |-> args] : sql \in BoundSql, args \in ArgLists}
  \cup {[sql |-> sql, named_args |-> named] : sql \in BoundSql, named \in NamedArgs}
  \cup {[sql |-> sql, args |-> args, named_args |-> named] :
          sql \in BoundSql, args \in ArgLists, named \in NamedArgs}

InitBinding ==
  /\ InitServer /\ InitAuthDO
  /\ codec \in {[phase |-> "stmt", stmt |-> stmt] : stmt \in BoundStmts}

\* handleExecute with codec.stmt, up to this.sql.exec(sql, ...params).
BindParams ==
  /\ codec.phase = "stmt"
  /\ codec' = [phase |-> "bound", stmt |-> codec.stmt, params |-> executeParams(codec.stmt)]
  /\ UNCHANGED <<serverVars, authVars>>

SpecBinding == InitBinding /\ [][BindParams]_vars

\* The server with its V1 endpoint.
NextV1(clients) ==
  \/ Next(clients)
  \/ \E r \in Slots : ReceiveV1(r, clients)
  \/ \E r \in Slots : BodyV1(r, clients)
  \/ \E r \in Slots : ResumeV1(r, clients)

SpecV1 == Init /\ [][NextV1(V1Clients)]_vars

SpecTx == Init /\ [][NextV1(TxClients)]_vars

\* The server with every route of handleRequest.
NextRouter(clients) ==
  \/ NextV1(clients)
  \/ \E r \in Slots : Static(r, clients)

SpecRouter == Init /\ [][NextRouter(RouterClients)]_vars

Spec == Init /\ [][Next(AnyClients)]_vars

SpecRegistry == Init /\ [][Next(RegistryClients)]_vars

SpecPipeline == Init /\ [][Next(PipelineClients)]_vars

SpecSession == Init /\ [][Next(SessionClients)]_vars

SpecExec == Init /\ [][Next(ExecClients)]_vars

SpecBatch == Init /\ [][Next(BatchClients)]_vars

SpecReferring == Init /\ [][Next(ReferringClients)]_vars

SpecRace == Init /\ [][Next(RaceClients)]_vars

\* The registry clients with one pipeline less, under an event loop in which time
\* passes and due timer callbacks run.
IdleClients == [RegistryClients EXCEPT !.batons = MaxBatons - 1]

FairIdle ==
  /\ Init /\ [][Next(IdleClients)]_vars
  /\ WF_vars(Tick)
  /\ \A b \in 1..MaxBatons : WF_vars(TimerFire(b))

(***************************************************************************)
(* AuthDO: the RPC methods of the Durable Object.  A method runs up to an  *)
(* await of hashPassword, verifyPassword or ctx.storage.transaction; other *)
(* calls and the passage of time interleave with it there.  A transaction  *)
(* that is followed by nothing but the return is one step with the return. *)
(***************************************************************************)
\* Times of AuthDO are in seconds (the code counts milliseconds; every time of
\* the model is a whole number of seconds).
SessionLifetime == 30 * 24 * 60 * 60   \* expiresAt of a session: now + 30 days
ResetLifetime   == 60 * 60             \* expiresAt of a reset token: now + 1 hour

MaxTokens == 3        \* calls of generateToken in one behaviour
MaxJumps  == 2        \* lifetimes that pass in one behaviour

Emails    == {"a@x.io", "b@x.io"}

TestToken   == "test-token"
DummyToken  == "dummy-token"
ForgedToken == "forged"       \* a string that generateToken never returned

HexDigits == "0123456789abcdef"

\* b.toString(16).padStart(2, '0')
byteHex(b) ==
  SubSeq(HexDigits, (b \div 16) + 1, (b \div 16) + 1)
    \o SubSeq(HexDigits, (b % 16) + 1, (b % 16) + 1)

\* Array.from(array).map(...).join('')
RECURSIVE hexOf(_)
hexOf(array) == IF array = <<>> THEN "" ELSE byteHex(array[1]) \o hexOf(Tail(array))

\* The n-th draw of 32 random bytes, hex-encoded: the model draws 00..01,
\* 00..02, ... : a value is never drawn twice.
TokenOf == [n \in 1..(MaxTokens + 1) |-> hexOf([i \in 1..32 |-> IF i = 32 THEN n ELSE 0])]

\* Mutant: a random source that repeats itself.
generateToken_repeat == TokenOf[1]

\* generateToken
generateToken == TokenOf[nextToken]

\* The tokens generated so far.
Minted == {TokenOf[n] : n \in 1..(nextToken - 1)}

\* hashPassword: the SHA-256 digest in hex, taken as free of collisions.
hashPassword(password) == "sha256:" \o password

verifyPassword(password, hash) == hashPassword(password) = hash

\* crypto.randomUUID() of signUp.  Emails are unique and users are never
\* deleted, so the model names the user created for an email by the email.
userId(email) == "user:" \o email

TestUser == [id |-> "test-user-id", email |-> "test@test.com"]

\* SELECT id FROM user WHERE email = ?
userByEmail(table, email) == {u \in table : u.email = email}

\* A method returns value from the frame it ran in.
Return(c, frame, value) ==
  /\ call' = [call EXCEPT ![c] = NoCall]
  /\ ret' = [frame |-> frame, result |-> value]

\* A method suspends at an await.
Await(c, frame) ==
  /\ call' = [call EXCEPT ![c] = frame]
  /\ ret' = NoRet

\* INSERT INTO session, with a new token.
insertSession(table, user_id, now) ==
  table \cup {[token |-> generateToken, user_id |-> user_id,
               expires_at |-> now + SessionLifetime]}

\* signUp up to `await this.hashPassword(password)`.
SignUp(c, clients) ==
  /\ call[c] = NoCall
  /\ \E email \in clients.emails, password \in clients.passwords :
       Await(c, [op |-> "signUp", at |-> "hashPassword", email |-> email,
                 password |-> password, now |-> clock])
  /\ UNCHANGED <<clock, storage, nextToken, history, serverVars, codec>>

\* signUp: the transaction that inserts the user and the account; the INSERT
\* into user throws when the email is taken.
SignUpUser(c, clients) ==
  /\ call[c].op = "signUp" /\ call[c].at = "hashPassword"
  /\ IF userByEmail(storage.user, call[c].email) # {}
     THEN /\ Return(c, call[c], [error |-> "User with this email already exists"])
          /\ UNCHANGED storage
     ELSE /\ storage' =
               [storage EXCEPT
                  !.user = @ \cup {[id |-> userId(call[c].email), email |-> call[c].email]},
                  !.account = @ \cup {[user_id |-> userId(call[c].email),
                                       password |-> hashPassword(call[c].password)]}]
          /\ Await(c, [call[c] EXCEPT !.at = "transaction"])
  /\ UNCHANGED <<clock, nextToken, history, serverVars, codec>>

\* signUp: the transaction that inserts the session, and the return.
SignUpSession(c, clients) ==
  /\ call[c].op = "signUp" /\ call[c].at = "transaction"
  /\ nextToken <= MaxTokens
  /\ storage' = [storage EXCEPT
                   !.session = insertSession(@, userId(call[c].email), call[c].now)]
  /\ nextToken' = nextToken + 1
  /\ Return(c, call[c],
            [user |-> [id |-> userId(call[c].email), email |-> call[c].email],
             session |-> [token |-> generateToken]])
  /\ UNCHANGED <<clock, history, serverVars, codec>>

\* signIn up to `await this.verifyPassword(password, userRow.password)`.
SignIn(c, clients) ==
  /\ call[c] = NoCall
  /\ \E email \in clients.emails, password \in clients.passwords \cup clients.newPasswords :
       LET frame == [op |-> "signIn", at |-> "verifyPassword", email |-> email,
                     password |-> password]
           rows  == {[id |-> u.id, email |-> u.email, password |-> a.password] :
                       u \in userByEmail(storage.user, email),
                       a \in {a \in storage.account : a.user_id = userId(email)}}
       IN IF rows = {}
          THEN Return(c, frame, [error |-> "Invalid email or password"])
          ELSE \E userRow \in rows : Await(c, frame @@ [userRow |-> userRow])
  /\ UNCHANGED <<clock, storage, nextToken, history, serverVars, codec>>

\* signIn from the verdict of verifyPassword to the return.
SignInSession(c, clients) ==
  /\ call[c].op = "signIn" /\ call[c].at = "verifyPassword"
  /\ IF ~verifyPassword(call[c].password, call[c].userRow.password)
     THEN /\ Return(c, call[c], [error |-> "Invalid email or password"])
          /\ UNCHANGED <<storage, nextToken>>
     ELSE /\ nextToken <= MaxTokens
          /\ storage' = [storage EXCEPT
                           !.session = insertSession(@, call[c].userRow.id, clock)]
          /\ nextToken' = nextToken + 1
          /\ Return(c, call[c],
                    [user |-> [id |-> call[c].userRow.id, email |-> call[c].userRow.email],
                     session |-> [token |-> generateToken]])
  /\ UNCHANGED <<clock, history, serverVars, codec>>

\* getAuthenticatedUser up to the await of the transaction that deletes the
\* expired sessions.
GetAuthenticatedUser(c, clients) ==
  /\ call[c] = NoCall
  /\ \E token \in Minted \cup clients.tokens :
       LET frame == [op |-> "getAuthenticatedUser", at |-> "transaction",
                     token |-> token, now |-> clock]
       IN IF token = TestToken
          THEN /\ Return(c, frame, TestUser)
               /\ UNCHANGED storage
          ELSE /\ storage' = [storage EXCEPT
                                !.session = {s \in @ : ~(s.expires_at < clock)}]
               /\ Await(c, frame)
  /\ UNCHANGED <<clock, nextToken, history, serverVars, codec>>

\* getAuthenticatedUser: the SELECT of the user joined with the session, and the
\* return.
GetAuthenticatedUserRow(c, clients) ==
  /\ call[c].op = "getAuthenticatedUser" /\ call[c].at = "transaction"
  /\ LET rows == {[id |-> u.id, email |-> u.email] :
                    u \in {u \in storage.user :
                             \E s \in storage.session :
                               /\ s.user_id = u.id
                               /\ s.token = call[c].token
                               /\ s.expires_at > call[c].now}}
     IN IF rows = {}
        THEN Return(c, call[c], [error |-> "Invalid or expired token"])
        ELSE \E row \in rows : Return(c, call[c], row)
  /\ UNCHANGED <<clock, storage, nextToken, history, serverVars, codec>>

\* Mutant: a new token also for an email that no user has.
requestPasswordReset_random(tables, email, now) ==
  IF userByEmail(tables.user, email) = {}
  THEN [tables |-> tables, result |-> [resetToken |-> generateToken]]
  ELSE [tables |-> [tables EXCEPT
                      !.verification = @ \cup {[id |-> generateToken, identifier |-> email,
                                                value |-> generateToken,
                                                expires_at |-> now + ResetLifetime]}],
        result |-> [resetToken |-> generateToken]]

\* requestPasswordReset(email) on the tables at the time now: the tables
\* afterwards and the value returned.  The verification row is named by its token.
requestPasswordReset(tables, email, now) ==
  IF userByEmail(tables.user, email) = {}
  THEN [tables |-> tables, result |-> [resetToken |-> DummyToken]]
  ELSE [tables |-> [tables EXCEPT
                      !.verification = @ \cup {[id |-> generateToken, identifier |-> email,
                                                value |-> generateToken,
                                                expires_at |-> now + ResetLifetime]}],
        result |-> [resetToken |-> generateToken]]

\* requestPasswordReset.
RequestPasswordReset(c, clients) ==
  /\ call[c] = NoCall
  /\ \E email \in clients.emails :
       /\ userByEmail(storage.user, email) # {} => nextToken <= MaxTokens
       /\ storage' = requestPasswordReset(storage, email, clock).tables
       /\ nextToken' = IF storage' = storage THEN nextToken ELSE nextToken + 1
       /\ Return(c, [op |-> "requestPasswordReset", email |-> email],
                 requestPasswordReset(storage, email, clock).result)
  /\ UNCHANGED <<clock, history, serverVars, codec>>

\* resetPassword up to `await this.hashPassword(newPassword)`.
ResetPassword(c, clients) ==
  /\ call[c] = NoCall
  /\ \E resetToken \in Minted \cup clients.tokens, newPassword \in clients.newPasswords :
       LET frame == [op |-> "resetPassword", at |-> "hashPassword",
                     resetToken |-> resetToken, newPassword |-> newPassword,
                     now |-> clock]
           rows  == {v \in storage.verification : v.value = resetToken}
       IN IF rows = {}
          THEN Return(c, frame, [error |-> "Invalid reset token"])
          ELSE \E row \in rows :
                 IF row.expires_at < clock
                 THEN Return(c, frame, [error |-> "Reset token has expired"])
                 ELSE Await(c, frame @@ [row |-> row])
  /\ UNCHANGED <<clock, storage, nextToken, history, serverVars, codec>>

\* Mutant: the sessions of the user are left alone.
resetTransaction_sessions(tables, row, user_id, passwordHash) ==
  [tables EXCEPT
     !.account = {IF a.user_id = user_id THEN [a EXCEPT !.password = passwordHash] ELSE a :
                    a \in @},
     !.verification = {v \in @ : v.id # row.id}]

\* The transaction of resetPassword: UPDATE account, DELETE FROM verification,
\* DELETE FROM session.
resetTransaction(tables, row, user_id, passwordHash) ==
  [tables EXCEPT
     !.account = {IF a.user_id = user_id THEN [a EXCEPT !.password = passwordHash] ELSE a :
                    a \in @},
     !.verification = {v \in @ : v.id # row.id},
     !.session = {s \in @ : s.user_id # user_id}]

\* resetPassword from the hash of the new password to the return.
ResetPasswordCommit(c, clients) ==
  /\ call[c].op = "resetPassword" /\ call[c].at = "hashPassword"
  /\ IF userByEmail(storage.user, call[c].row.identifier) = {}
     THEN /\ Return(c, call[c], [error |-> "User not found"])
          /\ UNCHANGED <<storage, history>>
     ELSE \E userRow \in userByEmail(storage.user, call[c].row.identifier) :
            /\ storage' = resetTransaction(storage, call[c].row, userRow.id,
                                           hashPassword(call[c].newPassword))
            /\ history' =
                 [history EXCEPT
                    !.revoked = @ \cup {s.token : s \in {s \in storage.session :
                                                           s.user_id = userRow.id}},
                    !.used = @ \cup {call[c].resetToken}]
            /\ Return(c, call[c], [success |-> TRUE])
  /\ UNCHANGED <<clock, nextToken, serverVars, codec>>

\* signOut.
SignOut(c, clients) ==
  /\ call[c] = NoCall
  /\ \E token \in Minted \cup clients.tokens :
       /\ storage' = [storage EXCEPT !.session = {s \in @ : s.token # token}]
       /\ history' = [history EXCEPT !.signedOut = @ \cup {token}]
       /\ Return(c, [op |-> "signOut", token |-> token], [success |-> TRUE])
  /\ UNCHANGED <<clock, nextToken, serverVars, codec>>

\* The lifetime of a reset token passes, or that of a session.
Advance(clients) ==
  /\ \E dt \in clients.jumps :
       /\ clock + dt <= MaxJumps * dt
       /\ clock' = clock + dt
  /\ ret' = NoRet
  /\ UNCHANGED <<storage, nextToken, call, history, serverVars, codec>>

\* Sessions: sign up, sign in, authenticate, sign out.
NextSessions(clients) ==
  \/ \E c \in clients.slots :
       \/ SignUp(c, clients) \/ SignUpUser(c, clients) \/ SignUpSession(c, clients)
       \/ SignIn(c, clients) \/ SignInSession(c, clients)
       \/ GetAuthenticatedUser(c, clients) \/ GetAuthenticatedUserRow(c, clients)
       \/ SignOut(c, clients)
  \/ Advance(clients)

\* Password reset: sign up, sign in, authenticate, request a reset, reset.
NextReset(clients) ==
  \/ \E c \in clients.slots :
       \/ SignUp(c, clients) \/ SignUpUser(c, clients) \/ SignUpSession(c, clients)
       \/ SignIn(c, clients) \/ SignInSession(c, clients)
       \/ GetAuthenticatedUser(c, clients) \/ GetAuthenticatedUserRow(c, clients)
       \/ RequestPasswordReset(c, clients)
       \/ ResetPassword(c, clients) \/ ResetPasswordCommit(c, clients)
  \/ Advance(clients)

\* Callers that hold sessions of two users until they sign out or the sessions
\* expire.
SessionClients2 ==
  [emails |-> Emails, passwords |-> {"old"}, newPasswords |-> {},
   tokens |-> {TestToken}, jumps |-> {SessionLifetime}, slots |-> Slots]

\* Callers that reset the password of a user.
ResetClients ==
  [emails |-> {"a@x.io"}, passwords |-> {"old"}, newPasswords |-> {"new"},
   tokens |-> {DummyToken, ForgedToken}, jumps |-> {ResetLifetime}, slots |-> Slots]

SpecSessions == Init /\ [][NextSessions(SessionClients2)]_vars

SpecReset == Init /\ [][NextReset(ResetClients)]_vars

(***************************************************************************)
(* requestPasswordReset on its own, for an email and two states of the     *)
(* tables that differ only in whether the email is registered: one has the *)
(* user and the account that signUp creates for it, the other has not.     *)
(***************************************************************************)
\* The rows that signUp(email, ..., password) inserts.
registered(tables, email, password) ==
  [tables EXCEPT
     !.user = @ \cup {[id |-> userId(email), email |-> email]},
     !.account = @ \cup {[user_id |-> userId(email), password |-> hashPassword(password)]}]

\* Tables in which an email is not registered: another user may be, with
\* sessions and a reset token.
TablesWithout(email) ==
  {[user |-> {}, account |-> {}, session |-> {}, verification |-> {}]}
  \cup {registered([user |-> {}, account |-> {},
                    session |-> {[token |-> TokenOf[n], user_id |-> userId(other),
                                  expires_at |-> SessionLifetime] : n \in held},
                    verification |-> {[id |-> TokenOf[n], identifier |-> other,
                                       value |-> TokenOf[n],
                                       expires_at |-> ResetLifetime] : n \in asked}],
                   other, password) :
           other \in Emails \ {email}, password \in {"old", "new"},
           held \in SUBSET (1..(MaxTokens - 1)), asked \in SUBSET {MaxTokens}}

InitPair ==
  /\ InitServer
  /\ clock \in {0, ResetLifetime}
  /\ storage = [user |-> {}, account |-> {}, session |-> {}, verification |-> {}]
  /\ nextToken = MaxTokens + 1
  /\ call = [c \in Slots |-> NoCall]
  /\ ret = NoRet
  /\ history = [signedOut |-> {}, revoked |-> {}, used |-> {}]
  /\ \E email \in Emails :
       codec \in {[phase |-> "pair", email |-> email, unregistered |-> tables,
                   registered |-> registered(tables, email, password)] :
                    tables \in TablesWithout(email), password \in {"old", "new"}}

\* requestPasswordReset(codec.email) in the one state and in the other.
AskBoth ==
  /\ codec.phase = "pair"
  /\ codec' = [phase |-> "asked", email |-> codec.email,
               unregistered |->
                 requestPasswordReset(codec.unregistered, codec.email, clock).result,
               registered |->
                 requestPasswordReset(codec.registered, codec.email, clock).result]
  /\ UNCHANGED <<serverVars, authVars>>

SpecPair == InitPair /\ [][AskBoth]_vars


(***************************************************************************)
(* Vocabulary of the properties.                                           *)
(***************************************************************************)
\* The handler of slot r has looked its baton up.
Looked(r) == pc[r] \in {"run", "done"} /\ request[r].kind = "ok"

\* Slot r was given a stream: its requests are being, or have been, executed.
Processed(r) == Looked(r) /\ local[r].newBaton # NullBaton

\* Slot r was answered 400 with this error.
Rejected(r, error) ==
  /\ pc[r] = "done"
  /\ response[r] = [status |-> 400, baton |-> NullBaton, results |-> <<>>, error |-> error]

\* Slot r was answered 200.
Answered(r) == pc[r] = "done" /\ response[r].status = 200

\* Slots r1 and r2 raced for one baton: both arrived while it was registered, and
\* no timer has dropped it.
Raced(r1, r2) ==
  /\ r1 # r2
  /\ request[r1].baton = request[r2].baton
  /\ request[r1].registered /\ request[r2].registered
  /\ request[r1].baton \notin expired

(***************************************************************************)
(* C1  Baton single-use: of the pipeline requests in flight at once that   *)
(* present the same registered baton, exactly one is processed and every   *)
(* other one is answered 400 "Invalid or expired baton": of two of them    *)
(* not both are processed, one that is not processed is rejected, and the  *)
(* baton was consumed (by one of the two, or by a third that raced them).  *)
(***************************************************************************)
BatonSingleUse ==
  \A r1, r2 \in Slots :
    (Raced(r1, r2) /\ Looked(r1) /\ Looked(r2))
      => /\ ~(Processed(r1) /\ Processed(r2))
         /\ ~Processed(r1) => Rejected(r1, InvalidBaton)
         /\ ~Processed(r2) => Rejected(r2, InvalidBaton)
         /\ request[r1].baton \in consumed
         /\ NumSlots = 2 => (Processed(r1) \/ Processed(r2))

\* A race that is over: one request still executing, the other rejected.
BatonSingleUseWitness ==
  \E r1, r2 \in Slots :
    /\ Raced(r1, r2)
    /\ pc[r1] = "run" /\ Processed(r1)
    /\ Rejected(r2, InvalidBaton)

(***************************************************************************)
(* C2  Baton rotation: once a pipeline is answered 200 with baton B_out,   *)
(* the baton B_in it presented is not bound in the registry and B_out      *)
(* differs from B_in.                                                      *)
(***************************************************************************)
BatonRotation ==
  \A r \in Slots :
    Answered(r) => /\ response[r].baton # request[r].baton
                   /\ request[r].baton \notin DOMAIN streams

BatonRotationWitness ==
  \E r \in Slots : Answered(r) /\ request[r].baton # NullBaton /\ request[r].registered

(***************************************************************************)
(* C3  A pipeline that presents a baton not bound in the registry is       *)
(* answered 400 {error: "Invalid or expired baton"}: no stream is created, *)
(* no request of it is executed, the registry stays as it is.              *)
(***************************************************************************)
UnknownBatonRejected ==
  [][\A r \in Slots :
       ( /\ pc[r] = "body" /\ pc'[r] # "body"
         /\ request[r].kind = "ok"
         /\ request[r].baton # NullBaton
         /\ request[r].baton \notin DOMAIN streams )
       => /\ Rejected(r, InvalidBaton)'
          /\ local'[r] = NoLocal
          /\ UNCHANGED <<streams, streamTimeouts, storedSql, db, backendCalls,
                         nextBaton, returned>>]_vars

\* Two sequential pipelines with the same baton: the first 200, the second 400.
UnknownBatonRejectedWitness ==
  \E r1, r2 \in Slots :
    /\ r1 # r2
    /\ Answered(r1) /\ request[r1].baton # NullBaton
    /\ request[r2].baton = request[r1].baton
    /\ ~request[r2].registered
    /\ Rejected(r2, InvalidBaton)

(***************************************************************************)
(* C4  With clients that present null or a baton returned in a response,   *)
(* no stream is ever processed by two in-flight pipelines at once.         *)
(***************************************************************************)
OnePipelinePerStream ==
  \A r1, r2 \in Slots :
    (r1 # r2 /\ pc[r1] = "run" /\ pc[r2] = "run") => local[r1].stream # local[r2].stream

\* Two pipelines in flight at once, one of them on a stream continued by a baton
\* that the other presents too.
OnePipelinePerStreamWitness ==
  \E r1, r2 \in Slots :
    /\ r1 # r2 /\ pc[r1] = "run" /\ pc[r2] = "run"
    /\ request[r1].baton # NullBaton
    /\ request[r2].baton = NullBaton

(***************************************************************************)
(* C5  A pipeline that contains a `close` request destroys its stream when *)
(* it completes: no baton of the registry resolves to the stream and the   *)
(* response carries a null baton.                                          *)
(***************************************************************************)
CloseDestroysStream ==
  \A r \in Slots :
    (Answered(r) /\ \E i \in 1..Len(local[r].requests) : local[r].requests[i].type = "close")
      => /\ response[r].baton = NullBaton
         /\ \A b \in DOMAIN streams : streams[b] # local[r].stream

(***************************************************************************)
(* C6  Idle expiry: a bound baton that is not presented is eventually      *)
(* dropped from the registry by its timer, and a request that presents a   *)
(* baton dropped by its timer is answered 400 "Invalid or expired baton".  *)
(***************************************************************************)
IdleExpiry ==
  /\ \A b \in 1..MaxBatons : (b \in DOMAIN streams) ~> (b \notin DOMAIN streams)
  /\ [](\A r \in Slots :
          (Looked(r) /\ request[r].baton \in expired) => Rejected(r, InvalidBaton))

IdleExpiryWitness ==
  \E r \in Slots :
    /\ request[r].baton \in expired
    /\ request[r].baton \in returned
    /\ Rejected(r, InvalidBaton)

(***************************************************************************)
(* Vocabulary of the pipeline properties.                                  *)
(***************************************************************************)
ErrorResult(message) == [type |-> "error", error |-> [message |-> message]]

ExecuteSql(q)  == [type |-> "execute", stmt |-> [sql |-> q]]
ExecuteId(id)  == [type |-> "execute", stmt |-> [sql_id |-> id]]
StoreSql(id, q) == [type |-> "store_sql", sql_id |-> id, sql |-> q]
CloseSql(id)   == [type |-> "close_sql", sql_id |-> id]

AlwaysOk == {"close", "store_sql", "close_sql", "get_autocommit"}

\* res is a possible outcome of req, and of no request of another type.
OutcomeOf(req, res) ==
  /\ res.type \in {"ok", "error"}
  /\ res.type = "ok" => res.response.type = req.type
  /\ req.type \in AlwaysOk => res.type = "ok"
  /\ req.type = "ping" => res = ErrorResult("Unknown request type: ping")
  /\ (req.type = "execute" /\ res.type = "error") =>
       res.error.message \in {NoSuchColumn, NeitherSql} \cup {SqlIdNotFound(i) : i \in SqlIds}
  /\ req = ExecuteSql(SelectBad) => res = ErrorResult(NoSuchColumn)
  /\ req = ExecuteSql(SelectRows) => res.type = "ok"

\* The requests of slot r executed so far and their recorded results.
Executed(r) == local[r].requests
Recorded(r) == local[r].results

(***************************************************************************)
(* C7  Ordering: a pipeline of N requests is answered with N results and   *)
(* results[i] is the outcome of requests[i]; requests run in list order:   *)
(* while the pipeline runs, the results recorded are those of the requests *)
(* before the one being executed.                                          *)
(***************************************************************************)
ResultsInOrder ==
  \A r \in Slots :
    /\ pc[r] = "run" =>
         /\ Len(Recorded(r)) = Len(Executed(r)) - 1
         /\ \A i \in 1..Len(Recorded(r)) : OutcomeOf(Executed(r)[i], Recorded(r)[i])
    /\ Answered(r) =>
         /\ Len(response[r].results) = request[r].n
         /\ Len(Executed(r)) = request[r].n
         /\ \A i \in 1..request[r].n : OutcomeOf(Executed(r)[i], response[r].results[i])

\* A pipeline of two requests of different types, one failed and one ok.
ResultsInOrderWitness ==
  \E r \in Slots :
    /\ Answered(r) /\ request[r].n = 2
    /\ response[r].results[1].type = "ok"
    /\ response[r].results[2].type = "error"
    /\ Executed(r)[1].type # Executed(r)[2].type

(***************************************************************************)
(* C8  Failure isolation: a failed request of a pipeline holds             *)
(* {type:"error", error:{message}} in its slot, the later requests are     *)
(* still executed, and the response is 200 with the new baton.             *)
(***************************************************************************)
FailureIsolation ==
  \A r \in Slots :
    (pc[r] = "done" /\ Processed(r)) =>
      /\ response[r].status = 200
      /\ response[r].baton = local[r].newBaton
      /\ response[r].baton # NullBaton
      /\ Len(response[r].results) = request[r].n
      /\ \A i \in 1..request[r].n :
           LET req == Executed(r)[i]
               res == response[r].results[i]
           IN /\ req.type = "ping" => res = ErrorResult("Unknown request type: ping")
              /\ req = ExecuteSql(SelectBad) => res = ErrorResult(NoSuchColumn)
              /\ (req = ExecuteId(1) /\ i > 1 /\ Executed(r)[i - 1] = CloseSql(1))
                   => res = ErrorResult(SqlIdNotFound(1))
              /\ res.type = "error" =>
                   \A j \in (i + 1)..request[r].n :
                     /\ Executed(r)[j].type \in AlwaysOk =>
                          response[r].results[j] = [type |-> "ok",
                                                    response |-> [type |-> Executed(r)[j].type]]
                     /\ Executed(r)[j] = ExecuteSql(SelectRows) =>
                          response[r].results[j].type = "ok"

\* A failed request followed by one that succeeded.
FailureIsolationWitness ==
  \E r \in Slots :
    /\ Answered(r) /\ request[r].n = 2
    /\ response[r].results[1].type = "error"
    /\ response[r].results[2].type = "ok"
    /\ Executed(r)[2].type = "execute"

(***************************************************************************)
(* C9  Within one pipeline request N sees the effects of requests 1..N-1:  *)
(* a store_sql in slot i makes its sql_id resolvable in every slot j > i   *)
(* (until it is stored again or closed), a close_sql in slot i makes it    *)
(* unresolvable, and a backend write of slot i is visible to slot j > i.   *)
(***************************************************************************)
Untouched(r, id, i, j) ==
  \A k \in (i + 1)..(j - 1) :
    ~(Executed(r)[k].type \in {"store_sql", "close_sql"} /\ Executed(r)[k].sql_id = id)

EarlierEffectsSeen ==
  \A r \in Slots : \A j \in 1..Len(Recorded(r)) : \A i \in 1..(j - 1) :
    LET reqI == Executed(r)[i]
        reqJ == Executed(r)[j]
        resI == Recorded(r)[i]
        resJ == Recorded(r)[j]
    IN \A id \in SqlIds :
         /\ (reqI.type = "store_sql" /\ reqI.sql_id = id /\ reqJ = ExecuteId(id)
               /\ Untouched(r, id, i, j))
              => resJ # ErrorResult(SqlIdNotFound(id))
         /\ (reqI = CloseSql(id) /\ reqJ = ExecuteId(id) /\ Untouched(r, id, i, j))
              => resJ = ErrorResult(SqlIdNotFound(id))
         /\ (reqI = ExecuteId(id) /\ resI.type = "ok"
               /\ resI.response.result.affected_row_count = 1
               /\ reqJ = ExecuteSql(SelectRows))
              => /\ resJ.type = "ok"
                 /\ Len(resJ.response.result.rows) >= 1

(***************************************************************************)
(* C10  Stored SQL scoping: a step of a pipeline changes the stored_sql    *)
(* mapping of no stream but its own, so SQL stored on stream A is never    *)
(* resolvable on stream B; a new stream starts with an empty mapping (it   *)
(* holds at most what its own first request stored).                       *)
(***************************************************************************)
StoredSqlScoped ==
  [][/\ \A s \in DOMAIN storedSql :
          storedSql'[s] # storedSql[s] =>
            \E r \in Slots :
              /\ pc'[r] = "run" /\ local'[r] # local[r]
              /\ local'[r].stream = s
              /\ LET req == local'[r].requests[Len(local'[r].requests)]
                 IN \/ /\ req.type = "store_sql"
                       /\ storedSql'[s] = mapSet(storedSql[s], req.sql_id, req.sql)
                    \/ /\ req.type = "close_sql"
                       /\ storedSql'[s] = mapDelete(storedSql[s], req.sql_id)
     /\ \A s \in (DOMAIN storedSql') \ (DOMAIN storedSql) :
          \/ storedSql'[s] = EmptyMap
          \/ \E r \in Slots :
               /\ pc[r] = "body" /\ pc'[r] = "run" /\ local'[r].stream = s
               /\ local'[r].requests[1].type = "store_sql"
               /\ storedSql'[s] = mapSet(EmptyMap, local'[r].requests[1].sql_id,
                                         local'[r].requests[1].sql)
    ]_vars

\* SQL is stored under id 1 on stream A, and the pipeline of another stream B that
\* refers to id 1 is told that it is not found.
StoredSqlScopedWitness ==
  \E r \in Slots : \E a \in DOMAIN storedSql :
    /\ Processed(r) /\ local[r].stream # a
    /\ 1 \in DOMAIN storedSql[a] /\ storedSql[a][1] = InsertRow
    /\ Len(Recorded(r)) >= 1
    /\ Executed(r)[1] = ExecuteId(1)
    /\ Recorded(r)[1] = ErrorResult(SqlIdNotFound(1))

V3Fields == {"rows_read", "rows_written", "query_duration_ms"}

TxStatements == {BeginTx, CommitTx, RollbackTx}

EmptyResult ==
  [cols |-> <<>>, rows |-> <<>>, affected_row_count |-> 0, last_insert_rowid |-> JsNull]

\* Slot r has just called handleStreamRequest for req: the step appended req to
\* the requests it has executed.
Calls(r, req) ==
  /\ pc'[r] = "run"
  /\ Len(local'[r].requests) = Len(local[r].requests) + 1
  /\ local'[r].requests[Len(local'[r].requests)] = req

(***************************************************************************)
(* C12  V3 metadata presence, with requests handled one at a time: every   *)
(* execute result of a /v3/pipeline request has rows_read, rows_written    *)
(* and query_duration_ms (zero counts for an intercepted transaction       *)
(* statement), and no execute result of a /v2/pipeline request has any of  *)
(* them, whatever requests came before.                                    *)
(***************************************************************************)
V3MetadataPresence ==
  \A r \in Slots : \A j \in 1..Len(Recorded(r)) :
    (Executed(r)[j].type = "execute" /\ Recorded(r)[j].type = "ok") =>
      LET result == Recorded(r)[j].response.result IN
      IF request[r].version = 3
      THEN /\ V3Fields \subseteq DOMAIN result
           /\ Executed(r)[j].stmt.sql \in TxStatements =>
                (result.rows_read = 0 /\ result.rows_written = 0)
      ELSE V3Fields \cap DOMAIN result = {}

\* A v3 pipeline with an intercepted statement, then a v2 pipeline, both answered.
V3MetadataPresenceWitness ==
  \E r1, r2 \in Slots :
    /\ Answered(r1) /\ Answered(r2)
    /\ response[r1].baton < response[r2].baton
    /\ request[r1].version = 3 /\ request[r2].version = 2
    /\ \E j \in 1..Len(Recorded(r1)) :
         Executed(r1)[j] = ExecuteSql(BeginTx) /\ Recorded(r1)[j].type = "ok"
    /\ \E j \in 1..Len(Recorded(r2)) :
         Executed(r2)[j] = ExecuteSql(SelectRows) /\ Recorded(r2)[j].type = "ok"

(***************************************************************************)
(* C13  Transaction interception: an execute of BEGIN, COMMIT or ROLLBACK  *)
(* succeeds with the empty result (no columns, no rows, affected_row_count *)
(* 0, last_insert_rowid null) and the backend is not invoked; an INSERT    *)
(* executed after it is forwarded to the backend.                          *)
(***************************************************************************)
TransactionInterception ==
  [][\A r \in Slots :
       /\ \A q \in TxStatements :
            Calls(r, ExecuteSql(q)) =>
              /\ UNCHANGED <<db, backendCalls>>
              /\ local'[r].pending.type = "ok"
              /\ local'[r].pending.response.type = "execute"
              /\ [f \in DOMAIN EmptyResult |-> local'[r].pending.response.result[f]]
                   = EmptyResult
       /\ ( /\ Calls(r, ExecuteSql(InsertRow))
            /\ \E i \in 1..Len(local[r].requests) :
                 local[r].requests[i].stmt.sql \in TxStatements )
            => /\ backendCalls' > backendCalls
               /\ db' = db + 1
               /\ local'[r].pending.type = "ok"]_vars

\* BEGIN answered with the empty result, then a row inserted by the same pipeline.
TransactionInterceptionWitness ==
  \E r \in Slots :
    /\ Answered(r) /\ request[r].n = 2
    /\ Executed(r)[1] = ExecuteSql(BeginTx)
    /\ Executed(r)[2] = ExecuteSql(InsertRow)
    /\ response[r].results[1].type = "ok"
    /\ response[r].results[2].type = "ok"
    /\ db >= 1

(***************************************************************************)
(* C14  Value round-trip: a value of the domain (null, integer, float,     *)
(* text, byte blob) encoded as a response value of version 1, 2 or 3 and   *)
(* decoded as a request argument of that version is the value again, with  *)
(* its type.                                                               *)
(***************************************************************************)
ValueRoundTrip ==
  codec.phase = "decoded" => codec.decoded = codec.value

(***************************************************************************)
(* C15  Batch skipping: a step of a batch whose condition is false is not  *)
(* sent to the backend and has null in step_results and in step_errors at  *)
(* its index; a step whose condition is true is executed.  With S0 failed, *)
(* a step guarded by ok{step:0} is skipped and one guarded by              *)
(* error{step:0} is executed.                                              *)
(***************************************************************************)
\* What a condition about step 0 means, given whether step 0 failed.
RECURSIVE CondHolds(_, _)
CondHolds(cond, s0failed) ==
  CASE cond.type = "ok"    -> ~s0failed
    [] cond.type = "error" -> s0failed
    [] cond.type = "not"   -> ~CondHolds(cond.cond, s0failed)

BatchSkipping ==
  [][\A r \in Slots : \A req \in BatchRequests :
       Calls(r, req) =>
         LET steps    == req.batch.steps
             out      == local'[r].pending
             res      == out.response.result
             s0failed == res.step_errors[1] # NullEntry
             run      == {i \in 2..Len(steps) : CondHolds(steps[i].condition, s0failed)}
         IN /\ out.type = "ok" /\ out.response.type = "batch"
            /\ Len(res.step_results) = Len(steps)
            /\ Len(res.step_errors) = Len(steps)
            /\ s0failed <=> steps[1].stmt.sql = SelectBad
            /\ \A i \in 2..Len(steps) :
                 IF i \in run
                 THEN res.step_results[i] # NullEntry /\ res.step_errors[i] = NullEntry
                 ELSE res.step_results[i] = NullEntry /\ res.step_errors[i] = NullEntry
            /\ db' = db + Cardinality(run)
            /\ backendCalls' = backendCalls + 1 + 2 * Cardinality(run)]_vars

\* S0 failed and S1, guarded by ok{step:0}, was skipped: nothing was inserted.
BatchSkippingWitness ==
  \E r \in Slots :
    /\ Answered(r) /\ request[r].n = 1
    /\ Executed(r)[1].type = "batch"
    /\ Executed(r)[1].batch.steps[1].stmt.sql = SelectBad
    /\ Executed(r)[1].batch.steps[2].condition = [type |-> "ok", step |-> 0]
    /\ response[r].results[1].type = "ok"
    /\ response[r].results[1].response.result.step_errors[1] = [message |-> NoSuchColumn]
    /\ response[r].results[1].response.result.step_results[2] = NullEntry
    /\ response[r].results[1].response.result.step_errors[2] = NullEntry
    /\ db = 0

(***************************************************************************)
(* Vocabulary of the V1 properties.                                        *)
(***************************************************************************)
\* Slot r holds a V1 request with a well-formed body.
IsV1(r) == request[r].version = 1 /\ request[r].kind = "ok"

\* The statements of slot r handed to executeQuery so far that fail.
Failing(r) == {i \in 1..Len(Executed(r)) : Executed(r)[i] = SelectBad}

(***************************************************************************)
(* C16  V1 batch errors: when a statement of a V1 request fails, the       *)
(* response is 400 with a single {error} and none of the results of the    *)
(* statements that succeeded before, and no statement after the failing    *)
(* one is executed.                                                        *)
(***************************************************************************)
V1BatchErrors ==
  \A r \in Slots :
    IsV1(r) =>
      /\ Failing(r) \subseteq {Len(Executed(r))}
      /\ (pc[r] = "done" /\ Failing(r) # {}) =>
           response[r] = [status |-> 400, baton |-> NullBaton, results |-> <<>>,
                          error |-> NoSuchColumn]
      /\ (pc[r] = "done" /\ Failing(r) = {}) =>
           /\ response[r].status = 200
           /\ Len(response[r].results) = request[r].n
           /\ Len(Executed(r)) = request[r].n

\* An INSERT that succeeded, then a failing statement: 400 without results.
V1BatchErrorsWitness ==
  \E r \in Slots :
    /\ IsV1(r) /\ pc[r] = "done"
    /\ Executed(r) = <<InsertRow, SelectBad>>
    /\ response[r].status = 400
    /\ response[r].results = <<>>

(***************************************************************************)
(* C17  The statements of one V1 request execute as a transaction: when a  *)
(* statement fails, the table is as it was before the request (clients     *)
(* send one request at a time).                                            *)
(***************************************************************************)
V1Transaction ==
  \A r \in Slots :
    (IsV1(r) /\ pc[r] = "done" /\ response[r].status = 400)
      => db = local[r].rowsAtStart

(***************************************************************************)
(* C19  Protocol framing errors: a pipeline request whose body is not JSON *)
(* or has no `requests` array, and a V1 request whose body is not JSON or  *)
(* has no `statements` array, is answered 400 with {error}; no stream is   *)
(* created and no statement is executed.                                   *)
(***************************************************************************)
FramingErrors ==
  [][\A r \in Slots :
       (pc[r] \in {"body", "v1body"} /\ pc'[r] # pc[r] /\ request[r].kind # "ok")
         => /\ pc'[r] = "done"
            /\ response'[r].status = 400
            /\ response'[r].error # ""
            /\ response'[r].results = <<>>
            /\ response'[r].baton = NullBaton
            /\ local'[r] = NoLocal
            /\ UNCHANGED <<streams, streamTimeouts, storedSql, db, backendCalls,
                           nextBaton, returned>>]_vars

\* A V1 request without `statements` was answered 400 while a stream and a row
\* exist.
FramingErrorsWitness ==
  \E r \in Slots :
    /\ request[r].version = 1 /\ request[r].kind = "nostatements"
    /\ pc[r] = "done" /\ response[r].status = 400
    /\ response[r].error = StatementsRequired
    /\ db >= 1 /\ DOMAIN streams # {}

(***************************************************************************)
(* C18  SQL resolution errors: an execute, a batch step, a sequence or a   *)
(* describe that carries neither sql nor sql_id, or a sql_id that is not   *)
(* in the stored SQL of its stream, yields an error in its slot (or step)  *)
(* and the backend is not invoked for it.                                  *)
(***************************************************************************)
\* What names the SQL of a request: its stmt, the stmt of its one step, or itself.
ReferenceOf(req) ==
  CASE req.type = "execute" -> req.stmt
    [] req.type = "batch"   -> req.batch.steps[1].stmt
    [] OTHER                -> req

SqlResolutionErrors ==
  [][\A r \in Slots : \A req \in ReferringRequests :
       LET stream == local'[r].stream
           cache  == IF stream \in DOMAIN storedSql THEN storedSql[stream] ELSE EmptyMap
           ref    == ReferenceOf(req)
           out    == local'[r].pending
       IN ( /\ Calls(r, req)
            /\ "sql_id" \in DOMAIN ref => ref.sql_id \notin DOMAIN cache )
          => /\ UNCHANGED <<db, backendCalls>>
             /\ req.type = "execute" =>
                  out = ErrorResult(IF "sql_id" \in DOMAIN ref
                                    THEN SqlIdNotFound(ref.sql_id) ELSE NeitherSql)
             /\ req.type \in {"sequence", "describe"} => out = ErrorResult(SqlNotProvided)
             /\ req.type = "batch" =>
                  /\ out.type = "ok"
                  /\ out.response.result.step_results = <<NullEntry>>
                  /\ out.response.result.step_errors =
                       <<[message |-> IF "sql_id" \in DOMAIN ref
                                      THEN SqlIdNotFound(ref.sql_id) ELSE NeitherSql]>>]_vars

\* A batch step that refers to an id not stored and a describe without SQL, both
\* reported as errors; the backend was never called.
SqlResolutionErrorsWitness ==
  \E r \in Slots :
    /\ Answered(r) /\ request[r].n = 2
    /\ Executed(r)[1] = [type |-> "batch", batch |-> [steps |-> <<[stmt |-> [sql_id |-> 1]]>>]]
    /\ response[r].results[1].response.result.step_errors[1] = [message |-> SqlIdNotFound(1)]
    /\ Executed(r)[2] = [type |-> "describe"]
    /\ response[r].results[2] = ErrorResult(SqlNotProvided)
    /\ backendCalls = 0

(***************************************************************************)
(* C20  Presenting a baton always consumes it: once a pipeline request     *)
(* that presented a baton bound in the registry has been answered,         *)
(* whatever the answer, the baton is not bound in the registry.            *)
(***************************************************************************)
BatonAlwaysConsumed ==
  \A r \in Slots :
    (pc[r] = "done" /\ request[r].version # 1 /\ request[r].registered)
      => request[r].baton \notin DOMAIN streams

(***************************************************************************)
(* Routing vocabulary.                                                     *)
(***************************************************************************)
\* handleRequest answered slot r itself, with this status.
StaticAnswer(r, status) ==
  pc[r] = "done" /\ request[r].kind = "static" /\ response[r].status = status

\* Slot r is in handlePipeline with this protocol version, or was answered by it.
InPipeline(r, version) ==
  /\ pc[r] \in {"body", "run", "done"}
  /\ request[r].kind # "static" /\ request[r].version = version

\* Slot r is in handleV1Batch, or was answered by it.
InV1Batch(r) == pc[r] \in {"v1body", "v1run", "done"} /\ request[r].version = 1

\* The handling that the request of slot r got.
HandledAs(r) ==
  IF request[r].kind = "static"
  THEN StaticRoute(response[r].status, response[r].text, response[r].error,
                   response[r].version)
  ELSE IF request[r].version = 1 THEN V1Route ELSE PipelineRoute(request[r].version)

\* A request arrives at slot r and handleRequest answers it itself.
ArrivesStatic(r) ==
  /\ pc[r] \in {"idle", "done"} /\ pc'[r] = "done"
  /\ request'[r].kind = "static"
  /\ pc[r] = "idle" \/ request'[r] # request[r]

(***************************************************************************)
(* C21  Routing: GET /v2, /v3 and /health answer 200, GET /v3-protobuf     *)
(* answers 404, GET /version answers 200 with the version string, POST     *)
(* /v2/pipeline and /v3/pipeline enter the pipeline engine with version 2  *)
(* and 3, POST / and /v1 enter the V1 batch handler, and every other       *)
(* method and path is answered 404 {error} and leaves the registry, the    *)
(* stored SQL and the database alone.                                      *)
(***************************************************************************)
RoutedRight ==
  \A r \in Slots :
    pc[r] # "idle" =>
      LET method == request[r].method
          path   == request[r].path
      IN CASE method = "GET" /\ path \in {"/v2", "/v3", "/health"} ->
                StaticAnswer(r, 200) /\ response[r].text = "OK"
           [] method = "GET" /\ path = "/v3-protobuf" -> StaticAnswer(r, 404)
           [] method = "GET" /\ path = "/version" ->
                StaticAnswer(r, 200) /\ response[r].version = "libsql-do-http-0.1.0"
           [] method = "POST" /\ path = "/v2/pipeline" -> InPipeline(r, 2)
           [] method = "POST" /\ path = "/v3/pipeline" -> InPipeline(r, 3)
           [] method = "POST" /\ path \in {"/", "/v1"} -> InV1Batch(r)
           [] OTHER -> StaticAnswer(r, 404) /\ response[r].error = "Not found"

Routing ==
  /\ []RoutedRight
  /\ [][\A r \in Slots :
          /\ ArrivesStatic(r) =>
               UNCHANGED <<streams, streamTimeouts, storedSql, db, backendCalls, nextBaton>>
          /\ (pc[r] # "body" /\ pc'[r] = "body") =>
               protocolVersion' = request'[r].version]_vars

\* A v3 pipeline that inserted a row was answered 200, and a DELETE of the v2
\* pipeline path was answered 404.
RoutingWitness ==
  \E r1, r2 \in Slots :
    /\ request[r1].method = "POST" /\ request[r1].path = "/v3/pipeline"
    /\ Answered(r1) /\ db = 1
    /\ request[r2].method = "DELETE" /\ request[r2].path = "/v2/pipeline"
    /\ StaticAnswer(r2, 404) /\ response[r2].error = "Not found"

(***************************************************************************)
(* C22  Trailing slash: a request whose path is a route followed by a      *)
(* slash gets the handling of the same request without the slash.          *)
(***************************************************************************)
TrailingSlash ==
  \A r \in Slots : \A path \in RoutePaths \ {"/"} :
    (pc[r] # "idle" /\ request[r].path = path \o "/")
      => HandledAs(r) = handleRequest(request[r].method, path)

(***************************************************************************)
(* C23  Parameter binding: positional args, when present, are the params   *)
(* of the backend call, one to one and in order; a statement with named    *)
(* args only (a v2 map or a v3 list of {name, value}) passes the values of *)
(* the mapping, in its iteration order, as the params.                     *)
(***************************************************************************)
PositionalBinding ==
  (codec.phase = "bound" /\ "args" \in DOMAIN codec.stmt /\ codec.stmt.args # <<>>)
    => codec.params = [i \in 1..Len(codec.stmt.args) |-> parseHranaValue(codec.stmt.args[i])]

NamedBinding ==
  (codec.phase = "bound" /\ "args" \notin DOMAIN codec.stmt
     /\ "named_args" \in DOMAIN codec.stmt)
    => codec.params = objectValues(parseNamedArgs(codec.stmt).some)

ParameterBinding == PositionalBinding /\ NamedBinding

(***************************************************************************)
(* C24  Decoding of tagged arguments: {type: "integer", value: v} decodes  *)
(* to the integer that v denotes, as a number or as a decimal string;      *)
(* {type: "blob"} decodes to the bytes of its base64 payload; {type:       *)
(* "null"} decodes to null; raw scalars decode to themselves.              *)
(***************************************************************************)
TaggedDecoding ==
  codec.phase = "parsed" => codec.decoded = codec.value

\* The part of C24 that does not depend on the type tag being read: raw scalars,
\* null, text, floats and integers sent as numbers.
UntaggedDecoding ==
  (codec.phase = "parsed"
     /\ ("t" \in DOMAIN codec.wire
           \/ codec.wire.type \in {"null", "text", "float"}
           \/ (codec.wire.type = "integer" /\ codec.wire.value.t = "number")))
    => codec.decoded = codec.value

(***************************************************************************)
(* C25  Encoding by protocol version: a V1 response carries a row value as *)
(* the raw scalar, a byte blob as {base64}; a v2/v3 response carries it as *)
(* {type, value}: null as {type: "null"}, a whole number as integer with a *)
(* decimal string, another number as float, a string as text, a byte blob  *)
(* as blob with base64 text.                                               *)
(***************************************************************************)
\* The decimal digits of a whole number, with its sign.
Decimal(n) == IF n < 0 THEN "-" \o ToString(-n) ELSE ToString(n)

BatchSteps  == codec.request.batch.steps
StepResults == codec.result.response.result.step_results
StepErrors  == codec.result.response.result.step_errors

\* Step j (from 1) was executed: it has a result or an error.
Ran(j) == StepResults[j] # NullEntry \/ StepErrors[j] # NullEntry

\* What a condition of step j means: ok{step: i} that step i (from 0) was executed
\* before and succeeded, error{step: i} that it was executed before and failed.
RECURSIVE Meaning(_, _)
Meaning(cond, j) ==
  CASE cond.type = "ok"    -> cond.step + 1 < j /\ StepResults[cond.step + 1] # NullEntry
    [] cond.type = "error" -> cond.step + 1 < j /\ StepErrors[cond.step + 1] # NullEntry
    [] cond.type = "not"   -> ~Meaning(cond.cond, j)

\* The step that a condition is about.
RECURSIVE StepOf(_)
StepOf(cond) == IF cond.type = "not" THEN StepOf(cond.cond) ELSE cond.step + 1

(***************************************************************************)
(* C26  Batch condition semantics: ok{step: i} is true exactly when step i *)
(* was executed and succeeded, error{step: i} exactly when step i was      *)
(* executed and failed, not{cond} is the negation of cond; a step that was *)
(* skipped or is not evaluated yet satisfies neither ok nor error.  A step *)
(* with a condition is executed exactly when its condition is true.        *)
(***************************************************************************)
ConditionSemantics ==
  codec.phase = "ran" =>
    \A j \in 1..Len(BatchSteps) :
      "condition" \in DOMAIN BatchSteps[j] => (Ran(j) <=> Meaning(BatchSteps[j].condition, j))

\* The part of C26 about conditions on a step that was executed before.
ExecutedStepConditions ==
  codec.phase = "ran" =>
    \A j \in 1..Len(BatchSteps) :
      ("condition" \in DOMAIN BatchSteps[j]
         /\ StepOf(BatchSteps[j].condition) < j /\ Ran(StepOf(BatchSteps[j].condition)))
        => (Ran(j) <=> Meaning(BatchSteps[j].condition, j))

(***************************************************************************)
(* C27  Batch results: for a batch of n steps, step_results and            *)
(* step_errors have length n; at each index at most one of them is not     *)
(* null, and both are null only if the step was skipped (it has a          *)
(* condition); a failing step records its error and the steps after it are *)
(* still evaluated; the batch request is reported as ok.                   *)
(***************************************************************************)
BatchResults ==
  codec.phase = "ran" =>
    /\ codec.result.type = "ok" /\ codec.result.response.type = "batch"
    /\ Len(StepResults) = Len(BatchSteps) /\ Len(StepErrors) = Len(BatchSteps)
    /\ \A j \in 1..Len(BatchSteps) :
         /\ ~(StepResults[j] # NullEntry /\ StepErrors[j] # NullEntry)
         /\ ~Ran(j) => "condition" \in DOMAIN BatchSteps[j]
         /\ (Ran(j) /\ BatchSteps[j].stmt.sql = SelectBad)
              => StepErrors[j] = [message |-> NoSuchColumn]
         /\ (Ran(j) /\ BatchSteps[j].stmt.sql = InsertRow) => StepResults[j] # NullEntry
    /\ codec.db = Cardinality({j \in 1..Len(BatchSteps) :
                                 Ran(j) /\ BatchSteps[j].stmt.sql = InsertRow})

\* The first step failed and the second, without a condition, inserted a row.
BatchResultsWitness ==
  /\ codec.phase = "ran"
  /\ BatchSteps = <<[stmt |-> [sql |-> SelectBad]], [stmt |-> [sql |-> InsertRow]]>>
  /\ StepErrors = <<[message |-> NoSuchColumn], NullEntry>>
  /\ StepResults[1] = NullEntry /\ StepResults[2] # NullEntry
  /\ codec.db = 1

(***************************************************************************)
(* Statement vocabulary, for a statement executed on its own.              *)
(***************************************************************************)
\* The letters at the start of s.
RECURSIVE LeadingWord(_)
LeadingWord(s) ==
  IF Len(s) > 0 /\ \E i \in 1..Len(UpperChars) : SubSeq(UpperChars, i, i) = SubSeq(s, 1, 1)
  THEN SubSeq(s, 1, 1) \o LeadingWord(SubSeq(s, 2, Len(s)))
  ELSE ""

\* The first token of a statement, in upper case.
FirstToken(sql) == LeadingWord(toUpperCase(trim(sql)))

TxTokens == {"BEGIN", "COMMIT", "ROLLBACK", "SAVEPOINT", "RELEASE"}

WriteWords == {"INSERT", "UPDATE", "DELETE", "CREATE", "DROP", "ALTER"}

\* The trimmed SQL starts with a write word, whatever the case of its letters.
StartsWithWrite(sql) ==
  \E word \in WriteWords :
    /\ Len(trim(sql)) >= Len(word)
    /\ toUpperCase(SubSeq(trim(sql), 1, Len(word))) = word

\* The statement went to the backend and its rows came back.
Forwarded == codec.phase = "executed" /\ ~codec.out.threw /\ codec.out.calls > 0

(***************************************************************************)
(* C28  Transaction-control classification: every statement whose first    *)
(* token is BEGIN, COMMIT, ROLLBACK, SAVEPOINT or RELEASE, in any case, is *)
(* answered by the statement executor with the empty result and is not     *)
(* forwarded to the backend.                                               *)
(***************************************************************************)
TxClassification ==
  (codec.phase = "executed" /\ FirstToken(codec.sql) \in TxTokens)
    => /\ ~codec.out.threw
       /\ codec.out.calls = 0
       /\ [f \in DOMAIN EmptyResult |-> codec.out.value[f]] = EmptyResult

\* The part of C28 that the executor implements: the forms it lists.
ListedTxForms ==
  (codec.phase = "executed"
     /\ codec.sql \in {BeginTx, " begin ", "BEGIN IMMEDIATE", "begin deferred transaction",
                       "BEGIN EXCLUSIVE", CommitTx, "commit", RollbackTx, "rollback",
                       "SAVEPOINT sp", "savepoint sp", "RELEASE sp", "release savepoint sp"})
    => /\ ~codec.out.threw
       /\ codec.out.calls = 0
       /\ [f \in DOMAIN EmptyResult |-> codec.out.value[f]] = EmptyResult

(***************************************************************************)
(* C30  Write/read classification: for a statement forwarded to the        *)
(* backend, affected_row_count is 1 if the trimmed SQL starts, in any      *)
(* case, with INSERT, UPDATE, DELETE, CREATE, DROP or ALTER, and 0         *)
(* otherwise; on v3 rows_written is 1 exactly for those statements and     *)
(* rows_read is the number of rows returned; describe reports is_readonly  *)
(* exactly when the statement is not such a write.                         *)
(***************************************************************************)
WriteClassification ==
  /\ Forwarded =>
       /\ codec.out.value.affected_row_count = (IF StartsWithWrite(codec.sql) THEN 1 ELSE 0)
       /\ codec.version = 3 =>
            /\ codec.out.value.rows_written = (IF StartsWithWrite(codec.sql) THEN 1 ELSE 0)
            /\ codec.out.value.rows_read = Len(codec.out.value.rows)
  /\ codec.phase = "described" =>
       /\ ~codec.out.threw
       /\ codec.out.value.result.is_readonly = ~StartsWithWrite(codec.sql)

\* An update in lower case after a space on v3: a write that returns no rows.
WriteClassificationWitness ==
  /\ Forwarded /\ codec.version = 3 /\ codec.sql = " update t set id = id"
  /\ codec.out.value.affected_row_count = 1
  /\ codec.out.value.rows_written = 1 /\ codec.out.value.rows_read = 0

(***************************************************************************)
(* C29  Transaction control on every path: BEGIN, COMMIT or ROLLBACK sent  *)
(* as a V1 batch statement, a pipeline execute, a batch step or a sequence *)
(* is answered as a no-op and the backend does not receive it.             *)
(***************************************************************************)
\* Slot r has just called executeQuery for a statement of its V1 batch.
CallsV1(r) ==
  /\ pc'[r] = "v1run"
  /\ Len(local'[r].requests) = Len(local[r].requests) + 1

TxPipelinePaths(kinds) ==
  \A r \in Slots : \A req \in TxRequests :
    (Calls(r, req) /\ req.type \in kinds)
      => /\ UNCHANGED <<db, backendCalls>>
         /\ local'[r].pending.type = "ok"
         /\ req.type = "batch" =>
              local'[r].pending.response.result.step_errors = <<NullEntry>>

TxEveryPath ==
  [][/\ TxPipelinePaths({"execute", "batch", "sequence"})
     /\ \A r \in Slots :
          CallsV1(r) => UNCHANGED <<db, backendCalls>> /\ ~local'[r].pending.threw]_vars

\* The part of C29 about the paths through executeStatement.
TxThroughExecutor == [][TxPipelinePaths({"execute", "batch"})]_vars

(***************************************************************************)
(* Vocabulary of the stream properties.                                    *)
(***************************************************************************)
\* Slot r has just called handleStreamRequest for the next request of its loop.
Stepped(r) == pc'[r] = "run" /\ local'[r] # local[r]

\* The request that slot r has just passed to handleStreamRequest.
StepRequest(r) == local'[r].requests[Len(local'[r].requests)]

\* The stored SQL of the stream of slot r before that call: a stream created in
\* this step had none.
CacheBefore(r) ==
  IF local'[r].stream \in DOMAIN storedSql THEN storedSql[local'[r].stream] ELSE EmptyMap

(***************************************************************************)
(* C31  Stored SQL cache: after store_sql{sql_id: i, sql: s} on a stream a *)
(* statement that refers to sql_id i on that stream resolves to s, for     *)
(* every string s and to the s stored last, until close_sql{sql_id: i};    *)
(* close_sql of an id that is not stored succeeds and changes nothing, and *)
(* after close_sql the id does not resolve.                                *)
(***************************************************************************)
StoredSqlKept ==
  [][\A r \in Slots : Stepped(r) =>
       LET req == StepRequest(r)
           now == storedSql'[local'[r].stream]
       IN /\ req.type = "store_sql" =>
               /\ req.sql_id \in DOMAIN now /\ now[req.sql_id] = req.sql
               /\ local'[r].pending = [type |-> "ok", response |-> [type |-> "store_sql"]]
          /\ req.type = "close_sql" =>
               /\ req.sql_id \notin DOMAIN now
               /\ req.sql_id \notin DOMAIN CacheBefore(r) => now = CacheBefore(r)
               /\ local'[r].pending = [type |-> "ok", response |-> [type |-> "close_sql"]]
          /\ req.type \notin {"store_sql", "close_sql"} => now = CacheBefore(r)
    ]_vars

StoredSqlResolves ==
  [][\A r \in Slots : \A id \in SqlIds :
       (Stepped(r) /\ StepRequest(r) = ExecuteId(id)) =>
         IF id \in DOMAIN CacheBefore(r)
         THEN /\ local'[r].pending # ErrorResult(SqlIdNotFound(id))
              /\ CacheBefore(r)[id] = InsertRow =>
                   /\ local'[r].pending.type = "ok"
                   /\ local'[r].pending.response.result.affected_row_count = 1
              /\ CacheBefore(r)[id] = SelectRows =>
                   /\ local'[r].pending.type = "ok"
                   /\ local'[r].pending.response.result.affected_row_count = 0
         ELSE local'[r].pending = ErrorResult(SqlIdNotFound(id))
    ]_vars

StoredSqlCache == StoredSqlKept /\ StoredSqlResolves


(***************************************************************************)
(* Vocabulary of the timer properties.                                     *)
(***************************************************************************)
\* The batons bound in this step, and those whose binding this step removed.
BoundNow   == (DOMAIN streams') \ (DOMAIN streams)
UnboundNow == (DOMAIN streams) \ (DOMAIN streams')

\* TickMs milliseconds have passed on a timer.
Elapsed(before, after) ==
  after = (IF before > TickMs THEN before - TickMs ELSE 0)

(***************************************************************************)
(* C32  The idle timer resets on every baton rotation: a baton is bound    *)
(* with a timer of 5 minutes of its own, on which nothing but the passage  *)
(* of time acts; a binding that no pipeline consumed is removed only by    *)
(* the timer armed for that baton, once its 5 minutes have passed, and     *)
(* nothing else is removed with it; so the timer of an earlier, consumed   *)
(* baton removes no binding.                                               *)
(***************************************************************************)
TimerResets ==
  [][/\ \A b \in BoundNow :
          /\ b \in DOMAIN streamTimeouts'
          /\ streamTimeouts'[b] = STREAM_TIMEOUT_MS
     /\ \A b \in (DOMAIN streams) \cap (DOMAIN streams') :
          /\ b \in DOMAIN streamTimeouts /\ b \in DOMAIN streamTimeouts'
          /\ \/ streamTimeouts'[b] = streamTimeouts[b]
             \/ /\ Elapsed(streamTimeouts[b], streamTimeouts'[b])
                /\ streams' = streams
     /\ \A b \in UnboundNow :
          \/ b \in consumed' \ consumed
          \/ /\ b \in DOMAIN streamTimeouts /\ streamTimeouts[b] = 0
             /\ streams' = mapDelete(streams, b)
             /\ streamTimeouts' = mapDelete(streamTimeouts, b)
     /\ \A b \in consumed :
          (b \in DOMAIN streamTimeouts /\ b \notin DOMAIN streamTimeouts')
            => streams' = streams
    ]_vars

\* The timer of a consumed baton has fired, and the baton that replaced it is
\* bound with time left on its own timer.
TimerResetsWitness ==
  \E r \in Slots :
    /\ Processed(r) /\ request[r].baton \in consumed
    /\ request[r].baton \notin DOMAIN streamTimeouts
    /\ local[r].newBaton \in DOMAIN streams
    /\ streamTimeouts[local[r].newBaton] > 0


(***************************************************************************)
(* C33  Timer bookkeeping: the batons that have an armed idle timer (the   *)
(* keys of streamTimeouts) are exactly the batons bound in the registry;   *)
(* consuming a baton cancels and removes the timer armed for it.           *)
(***************************************************************************)
TimerBookkeeping == DOMAIN streamTimeouts = DOMAIN streams

\* Every bound baton has an armed timer.
BoundIsArmed == DOMAIN streams \subseteq DOMAIN streamTimeouts


(***************************************************************************)
(* C34  Checkout and checkin: while a pipeline executes its requests its   *)
(* stream is bound to no baton of the registry; the new baton is bound and *)
(* its timer armed only when the pipeline has completed, so every bound    *)
(* baton has been returned in a response.                                  *)
(***************************************************************************)
CheckedOut ==
  \A r \in Slots :
    pc[r] = "run" =>
      /\ \A b \in DOMAIN streams : streams[b] # local[r].stream
      /\ local[r].newBaton \notin DOMAIN streams
      /\ local[r].newBaton \notin DOMAIN streamTimeouts

BoundIsReturned == DOMAIN streams \subseteq returned

CheckoutOwnership == CheckedOut /\ BoundIsReturned

\* The presented baton is unbound from the moment the pipeline has looked it up.
PresentedIsUnbound ==
  \A r \in Slots :
    (pc[r] = "run" /\ request[r].baton # NullBaton) => request[r].baton \notin DOMAIN streams


(***************************************************************************)
(* C35  The protocol version applied to the statement results of a         *)
(* pipeline is that of the endpoint it was posted to, also when a request  *)
(* to the other endpoint is dispatched while it is suspended: an execute   *)
(* result of a /v2/pipeline request has none of the v3 fields, one of a    *)
(* /v3/pipeline request has all of them.                                   *)
(***************************************************************************)
\* The results of the pipeline of slot r so far, the one awaited included.
ResultsSoFar(r) ==
  IF pc[r] = "run" THEN Append(Recorded(r), local[r].pending) ELSE Recorded(r)

VersionOfEndpoint ==
  \A r \in Slots : \A j \in 1..Len(ResultsSoFar(r)) :
    (Executed(r)[j].type = "execute" /\ ResultsSoFar(r)[j].type = "ok") =>
      LET fields == V3Fields \cap DOMAIN ResultsSoFar(r)[j].response.result
      IN /\ request[r].path = "/v2/pipeline" => fields = {}
         /\ request[r].path = "/v3/pipeline" => fields = V3Fields

\* The version applied is that of the request dispatched last.
VersionOfLastDispatch ==
  [][\A r \in Slots :
       (Stepped(r) /\ local'[r].pending.type = "ok") =>
         (V3Fields \cap DOMAIN local'[r].pending.response.result) =
           (IF protocolVersion = 3 THEN V3Fields ELSE {})
    ]_vars


(***************************************************************************)
(* C36  Unique current baton: no two batons of the registry resolve to the *)
(* same stream, and a pipeline request without baton creates a stream that *)
(* is none of the streams created before.                                  *)
(***************************************************************************)
OneBatonPerStream ==
  \A b1, b2 \in DOMAIN streams : streams[b1] = streams[b2] => b1 = b2

NewStreamIsNew ==
  \A r \in Slots :
    (pc[r] = "body" /\ pc'[r] # "body" /\ request[r].kind = "ok"
       /\ request[r].baton = NullBaton) =>
      /\ local'[r].stream \notin DOMAIN storedSql
      /\ \A b \in DOMAIN streams : streams[b] # local'[r].stream
      /\ \A other \in Slots \ {r} : local[other].stream # local'[r].stream
      /\ streams' = mapSet(streams, local'[r].newBaton, local'[r].stream)

UniqueCurrentBaton == []OneBatonPerStream /\ [][NewStreamIsNew]_vars

\* Two streams are bound, one of them to a baton it was rotated to.
UniqueCurrentBatonWitness ==
  \E b1, b2 \in DOMAIN streams :
    /\ streams[b1] # streams[b2]
    /\ streams[b1] # b1
    /\ streams[b1] \in consumed


(***************************************************************************)
(* Vocabulary of the AuthDO properties.                                    *)
(***************************************************************************)
\* The method op has returned in the last step.
HasReturned(op) == ret # NoRet /\ ret.frame.op = op

\* 'error' in result
IsError(result) == "error" \in DOMAIN result

\* The session rows with a token that had not expired at a time.
LiveSessions(token, now) ==
  {s \in storage.session : s.token = token /\ s.expires_at > now}

\* getAuthenticatedUser answers as the session table has it: a user only for the
\* token of a row that had not expired when the method was called, and not for a
\* token that was signed out.
AnswersFromSessions(tokens) ==
  (HasReturned("getAuthenticatedUser") /\ ret.frame.token \in tokens) =>
    /\ ~IsError(ret.result) =>
         \E s \in LiveSessions(ret.frame.token, ret.frame.now) :
           s.user_id = ret.result.id
    /\ ret.frame.token \in history.signedOut => IsError(ret.result)

(***************************************************************************)
(* C37  getAuthenticatedUser(token) returns a user only when a session row *)
(* with that token exists and has not expired at the time of the call;     *)
(* after signOut(token), and after the expiry time of the session, it      *)
(* returns an error: for every token.                                      *)
(***************************************************************************)
SessionAuthentication == AnswersFromSessions(Minted \cup {TestToken, ForgedToken})

\* The same for the tokens that generateToken has returned.
MintedAuthentication == AnswersFromSessions(Minted)

\* A token was returned to a user, signed out and rejected.
MintedAuthenticationSeen ==
  /\ HasReturned("getAuthenticatedUser")
  /\ ret.frame.token \in Minted \cap history.signedOut
  /\ IsError(ret.result)


(***************************************************************************)
(* C38  After resetPassword has succeeded for a user, every session token  *)
(* the user held is rejected by getAuthenticatedUser and the reset token   *)
(* is consumed: a resetPassword called with it afterwards fails with       *)
(* 'Invalid reset token'; an expired or unknown reset token changes        *)
(* neither the password nor the sessions.                                  *)
(***************************************************************************)
ResetSucceeded == HasReturned("resetPassword") /\ ret.result = [success |-> TRUE]

\* After a reset: the state the successful call leaves, and the answer to a
\* session token it deleted.
AfterReset ==
  /\ ResetSucceeded =>
       /\ \A s \in storage.session : s.user_id # userId(ret.frame.row.identifier)
       /\ \A v \in storage.verification : v.value # ret.frame.resetToken
       /\ \A a \in storage.account :
            a.user_id = userId(ret.frame.row.identifier)
              => a.password = hashPassword(ret.frame.newPassword)
       /\ ret.frame.resetToken \in history.used
  /\ (HasReturned("getAuthenticatedUser") /\ ret.frame.token \in history.revoked)
       => ret.result = [error |-> "Invalid or expired token"]

\* resetPassword is called with a reset token in this step: it suspends at its
\* first await, or it returns at once.
ResetSuspends(token) ==
  \E c \in Slots :
    /\ call[c] = NoCall /\ call'[c] # NoCall
    /\ call'[c].op = "resetPassword" /\ call'[c].resetToken = token

ResetRefuses(token, message) ==
  /\ call' = call /\ ret' # NoRet
  /\ ret'.frame.op = "resetPassword" /\ ret'.frame.resetToken = token
  /\ ret'.result = [error |-> message]
  /\ storage' = storage

ResetCalled(token) ==
  \/ ResetSuspends(token)
  \/ /\ call' = call /\ ret' # NoRet
     /\ ret'.frame.op = "resetPassword" /\ ret'.frame.resetToken = token

ResetTokenChecked ==
  \A token \in Minted \cup {DummyToken, ForgedToken} :
    ResetCalled(token) =>
      LET rows == {v \in storage.verification : v.value = token} IN
      /\ token \in history.used => ResetRefuses(token, "Invalid reset token")
      /\ rows = {} => ResetRefuses(token, "Invalid reset token")
      /\ (rows # {} /\ \A v \in rows : v.expires_at < clock)
           => ResetRefuses(token, "Reset token has expired")

\* A resetPassword that returns an error has changed nothing.
FailedResetKeeps ==
  (ret' # NoRet /\ ret'.frame.op = "resetPassword" /\ IsError(ret'.result))
    => storage' = storage

PasswordReset == []AfterReset /\ [][ResetTokenChecked /\ FailedResetKeeps]_vars

\* A password was reset, and a session token the user held is rejected before
\* any session has expired.
PasswordResetWitness ==
  /\ HasReturned("getAuthenticatedUser")
  /\ ret.frame.token \in history.revoked
  /\ IsError(ret.result)
  /\ history.used # {}
  /\ clock < SessionLifetime

\* A reset token that was used is refused.
UsedTokenRefused ==
  /\ HasReturned("resetPassword")
  /\ ret.frame.resetToken \in history.used
  /\ ret.result = [error |-> "Invalid reset token"]

\* A reset token that has expired is refused.
ExpiredTokenRefused ==
  /\ HasReturned("resetPassword")
  /\ ret.result = [error |-> "Reset token has expired"]


(***************************************************************************)
(* C39  requestPasswordReset does not reveal whether an email belongs to a *)
(* user: in two states that differ only in whether the email is registered *)
(* the values returned have the same observable form, so that no test a    *)
(* caller can apply to the value tells the one case from the other.        *)
(***************************************************************************)
IsHex(text) == \A i \in 1..Len(text) : \E j \in 1..Len(HexDigits) :
                 SubSeq(text, i, i) = SubSeq(HexDigits, j, j)

\* What a caller can test on a returned value without knowing the random bytes:
\* its fields, the length and the alphabet of the token, and whether the token is
\* the constant of the source.
FormOf(result) ==
  IF "resetToken" \in DOMAIN result
  THEN [fields |-> DOMAIN result, length |-> Len(result.resetToken),
        hex |-> IsHex(result.resetToken), dummy |-> result.resetToken = DummyToken]
  ELSE [fields |-> DOMAIN result, length |-> 0, hex |-> FALSE, dummy |-> FALSE]

ResetDoesNotReveal ==
  codec.phase = "asked" => FormOf(codec.registered) = FormOf(codec.unregistered)

\* Both values are of the shape {resetToken: string}.
ResetSameShape ==
  codec.phase = "asked" =>
    /\ DOMAIN codec.registered = {"resetToken"}
    /\ DOMAIN codec.unregistered = {"resetToken"}


=============================================================================
